---------------------------- MODULE Spec2Model ----------------------------
(***************************************************************************)
(* A model of the Nerd kernel (src/unnamed/part_000): the memory arena,    *)
(* the GC object store, the built-in string type, the lexical analyser     *)
(* and the reader/evaluator.                                               *)
(*                                                                         *)
(* Bytes are the integers 0..255.  Memory returned by the memory callback  *)
(* is an address (0 is NULL); an arena's buffer is a sparse map from       *)
(* offsets to the bytes written so far.                                    *)
(***************************************************************************)
EXTENDS Integers, Sequences, FiniteSets, TLC

VARIABLES
    vm,         \* "open", "closed" or "crashed" (a NULL write, a failed assert)
    build,      \* "Debug" (asserts checked) or "Release" (NDEBUG)
    scratch,    \* N->scratch, an Arena
    objectInfo, \* N->objectInfo: the Arena of the ObjectInfo records and its records
    gcObjs,     \* N->gcObjs: the header address of the first object, or NULL
    heap,       \* the blocks obtained from the memory callback and not yet freed
    serial,     \* observer: number of NeObjectCreate calls made
    created,    \* observer: the objects NeObjectCreate returned, in order
    deleteLog,  \* observer: the delete callbacks invoked, in order
    registered, \* observer: the ids NeObjectRegister returned and the records given
    lastCreate, \* observer: the last NeObjectCreate call the embedder made
    lastString, \* observer: what the last NeToString call returned
    prints,     \* number of NeToString calls made
    outputFunc, \* N->config.outputFunc is set
    outLog,     \* observer: the messages the output callback was invoked with, in order
    runs,       \* number of NeRun calls made
    lastRun,    \* observer: the last NeRun call, its lexemes and what it returned
    evals,      \* number of eval calls made on their own
    lastEval,   \* observer: the last such eval call and what it gave
    closeLog,   \* observer: the kinds of the blocks NeClose released, in order
    steps,      \* number of arena operations applied so far
    pushRun,    \* observer: the current run of arenaPush calls followed by arenaPop calls
    prevOp,     \* observer: the arena allocation before the last one
    lastOp      \* observer: the last arena allocation (arenaAlloc or arenaFormatV)

arenaObs == <<steps, pushRun, prevOp, lastOp>>
gcVars == <<objectInfo, gcObjs, heap, serial, created, deleteLog, registered, lastCreate>>
runVars == <<outputFunc, outLog, runs, lastRun, evals, lastEval, closeLog>>
vars == <<vm, build, scratch, objectInfo, gcObjs, heap, serial, created, deleteLog,
          registered, lastCreate, lastString, prints, outputFunc, outLog, runs, lastRun, evals, lastEval, closeLog,
          steps, pushRun, prevOp,
          lastOp>>

(***************************************************************************)
(* Bounds of the model.                                                    *)
(***************************************************************************)
MaxSteps == 4
MaxCreates == 3
MaxTypes == 3
MaxRawLen == 4
MaxPrints == 1

(***************************************************************************)
(* Characters.                                                             *)
(***************************************************************************)
AsciiPrintable ==
    << " ", "!", "\"", "#", "$", "%", "&", "'", "(", ")", "*", "+", ",", "-", ".", "/",
       "0", "1", "2", "3", "4", "5", "6", "7", "8", "9", ":", ";", "<", "=", ">", "?",
       "@", "A", "B", "C", "D", "E", "F", "G", "H", "I", "J", "K", "L", "M", "N", "O",
       "P", "Q", "R", "S", "T", "U", "V", "W", "X", "Y", "Z", "[", "\\", "]", "^", "_",
       "backtick", "a", "b", "c", "d", "e", "f", "g", "h", "i", "j", "k", "l", "m", "n", "o",
       "p", "q", "r", "s", "t", "u", "v", "w", "x", "y", "z", "{", "|", "}", "~" >>

\* The byte value of a character written as a one-character string.
Ord(ch) ==
    CASE ch = "\n" -> 10
      [] ch = "\r" -> 13
      [] ch = "\t" -> 9
      [] OTHER -> 31 + (CHOOSE i \in 1..Len(AsciiPrintable) : AsciiPrintable[i] = ch)

\* The bytes of a text written as a tuple of one-character strings.
Bytes(text) == [i \in 1..Len(text) |-> Ord(text[i])]

TextNil == Bytes(<<"n", "i", "l">>)
TextYes == Bytes(<<"y", "e", "s">>)
TextNo == Bytes(<<"n", "o">>)
TextQuote == Bytes(<<"\"">>)
TextEscN == Bytes(<<"\\", "n">>)
TextEscR == Bytes(<<"\\", "r">>)
TextEscT == Bytes(<<"\\", "t">>)
TextEscB == Bytes(<<"\\", "b">>)
TextObject == Bytes(<<"o", "b", "j", "e", "c", "t">>)
ChLess == Ord("<")
ChGreater == Ord(">")
ChColon == Ord(":")
ChLowerN == Ord("n")
ChLowerR == Ord("r")
ChLowerT == Ord("t")
ChLowerB == Ord("b")
ChLowerA == Ord("a")
ChZero == Ord("0")
Backslash == Ord("\\")

(***************************************************************************)
(* The memory callback.  A call returns NULL or the address of the block;  *)
(* a reallocation may leave the block in place or move it, and the address *)
(* it returns need not be 16-byte aligned.                                 *)
(***************************************************************************)
NULL == 0
Addresses == {65536, 1048584}
MemResults == {NULL} \cup Addresses

NE_MAX(a, b) == IF a < b THEN b ELSE a

(***************************************************************************)
(* Buffer memory: a map from offsets to bytes; an offset outside the       *)
(* domain has never been written.                                          *)
(***************************************************************************)
MemWrite(mem, off, bytes) ==
    LET span == off..(off + Len(bytes) - 1)
    IN  [k \in (DOMAIN mem) \cup span |-> IF k \in span THEN bytes[k - off + 1] ELSE mem[k]]

\* The 8 bytes of an i64 (little endian) for the values an arena stores:
\* -1 and offsets below 2^24.
I64Bytes(v) ==
    IF v < 0 THEN [i \in 1..8 |-> 255]
    ELSE [i \in 1..8 |-> CASE i = 1 -> v % 256
                           [] i = 2 -> (v \div 256) % 256
                           [] i = 3 -> (v \div 65536) % 256
                           [] OTHER -> 0]

\* The i64 stored at an offset (all eight bytes have been written).
MemReadI64(mem, off) ==
    IF \A i \in 0..7 : mem[off + i] = 255 THEN -1
    ELSE mem[off] + 256 * mem[off + 1] + 65536 * mem[off + 2]

SentinelA == [i \in 1..8 |-> 170]      \* 0xaaaaaaaaaaaaaaaa
SentinelB == [i \in 1..8 |-> 187]      \* 0xbbbbbbbbbbbbbbbb

(***************************************************************************)
(* Arena.                                                                  *)
(***************************************************************************)
\* arenaInit with a buffer the memory callback returned (buffer # NULL).
arenaInit(buffer, initialSize) ==
    [start |-> buffer, size |-> initialSize, cursor |-> 0, restore |-> -1, mem |-> <<>>]

\* Mutant: the buffer is doubled (at least 4096 bytes) whatever numBytes is.
arenaEnsureSpace_doubling(arena, numBytes, r) ==
    IF arena.cursor + numBytes > arena.size
    THEN IF r # NULL
         THEN [arena |-> [arena EXCEPT !.start = r,
                                       !.size = NE_MAX(2 * arena.size, 4096)], ret |-> 1]
         ELSE [arena |-> arena, ret |-> 0]
    ELSE [arena |-> arena, ret |-> 1]

\* r is what the memory callback returns if it is called.
arenaEnsureSpace(arena, numBytes, r) ==
    IF arena.cursor + numBytes > arena.size
    THEN LET currentSize == arena.size
             requiredSize == currentSize + numBytes
             newSize == currentSize + NE_MAX(requiredSize, 4096)
         IN  IF r # NULL
             THEN [arena |-> [arena EXCEPT !.start = r, !.size = newSize], ret |-> 1]
             ELSE [arena |-> arena, ret |-> 0]
    ELSE [arena |-> arena, ret |-> 1]

\* The call arenaEnsureSpace makes to the memory callback when numBytes do not fit:
\* the old size it passes is end - cursor, the address of the end of the buffer
\* less the cursor.
arenaEnsureSpaceRequest(arena, numBytes) ==
    [address |-> arena.start,
     oldBytes |-> (arena.start + arena.size) - arena.cursor,
     newBytes |-> arena.size + NE_MAX(arena.size + numBytes, 4096)]

\* The calls arenaAlloc(numBytes) makes to the memory callback.
arenaAllocRequests(arena, numBytes) ==
    IF arena.cursor + numBytes > arena.size
    THEN <<arenaEnsureSpaceRequest(arena, numBytes)>>
    ELSE <<>>

\* The calls arenaFormatV makes to the memory callback for a text of numChars
\* bytes: none when the text is shorter than the free space, else the one that
\* makes room for the text and its terminator.
arenaFormatVRequests(arena, numChars) ==
    IF numChars < arena.size - arena.cursor
    THEN <<>>
    ELSE <<arenaEnsureSpaceRequest(arena, numChars + 1)>>

\* arenaAlloc once arenaEnsureSpace has given e = [arena, ret].
arenaAllocEnsured(arena, numBytes, e) ==
    IF e.ret = 1
    THEN [arena |-> [e.arena EXCEPT !.cursor = @ + numBytes],
          p |-> e.arena.start + e.arena.cursor]
    ELSE [arena |-> arena, p |-> NULL]

arenaAlloc(arena, numBytes, r) ==
    arenaAllocEnsured(arena, numBytes, arenaEnsureSpace(arena, numBytes, r))

arenaAlign(arena, r) ==
    LET mod == (arena.start + arena.cursor) % 16
    IN  IF mod # 0 THEN arenaAlloc(arena, 16 - mod, r).arena ELSE arena

arenaAlignedAlloc(arena, numBytes, r1, r2) ==
    arenaAlloc(arenaAlign(arena, r1), numBytes, r2)

\* p = NULL in the result: the two header words are written through a null pointer.
arenaPushHeader(a, p, off) ==
    IF p = NULL
    THEN [arena |-> a, p |-> NULL]
    ELSE [arena |-> [a EXCEPT !.mem = MemWrite(MemWrite(a.mem, off, SentinelA),
                                               off + 8, I64Bytes(a.restore)),
                              !.restore = off],
          p |-> p]

arenaPushAllocated(al) == arenaPushHeader(al.arena, al.p, al.p - al.arena.start)

arenaPush(arena, r1, r2) == arenaPushAllocated(arenaAlloc(arenaAlign(arena, r1), 16, r2))

\* Mutant: the cursor is left after the restore header instead of on it.
arenaPop_afterHeader(arena) ==
    LET cursor == arena.restore
        mem == MemWrite(arena.mem, cursor, SentinelB)
    IN  [arena EXCEPT !.cursor = cursor + 16, !.mem = mem,
                      !.restore = MemReadI64(mem, cursor + 8)]

\* Mutant: the restore point of the session that ends is kept.
arenaPop_keepRestore(arena) ==
    [arena EXCEPT !.cursor = arena.restore,
                  !.mem = MemWrite(arena.mem, arena.restore, SentinelB)]

\* Requires arena.restore # -1 (asserted by the code).
arenaPop(arena) ==
    LET cursor == arena.restore
        mem == MemWrite(arena.mem, cursor, SentinelB)
    IN  [arena EXCEPT !.cursor = cursor, !.mem = mem, !.restore = MemReadI64(mem, cursor + 8)]

arenaSpace(arena) == arena.size - arena.cursor

\* What vsnprintf(buf, size, ...) stores for a rendering `text`: nothing when
\* size = 0, else the first size-1 bytes of the text and a NUL.
Rendered(text, size) ==
    IF size = 0 THEN <<>>
    ELSE SubSeq(text, 1, IF Len(text) < size - 1 THEN Len(text) ELSE size - 1) \o <<0>>

\* The second vsnprintf of arenaFormatV, e being what arenaEnsureSpace gave for
\* the arena a1 the first one wrote into.
arenaFormatGrown(a1, e, text, numChars, r) ==
    IF e.ret = 1
    THEN arenaAlloc([e.arena EXCEPT
                        !.mem = MemWrite(@, e.arena.cursor, Rendered(text, numChars + 1))],
                    numChars + 1, r)
    ELSE [arena |-> a1, p |-> NULL]

arenaFormatWritten(a1, text, maxSize, numChars, r) ==
    IF numChars < maxSize
    THEN arenaAlloc(a1, numChars, r)
    ELSE arenaFormatGrown(a1, arenaEnsureSpace(a1, numChars + 1, r), text, numChars, r)

\* text is the rendering of the format and its arguments.
arenaFormatV(arena, text, r) ==
    arenaFormatWritten(
        [arena EXCEPT !.mem = MemWrite(@, arena.cursor, Rendered(text, arenaSpace(arena)))],
        text, arenaSpace(arena), Len(text), r)

(***************************************************************************)
(* Scratch sessions.  A scratch state is [arena, crashed]; `crashed` is    *)
(* set when the code writes through the NULL a failed allocation returned. *)
(* r is what the memory callback returns to the calls made in the session. *)
(***************************************************************************)
Scratch(arena) == [arena |-> arena, crashed |-> FALSE]

\* The offset of an address in the arena's buffer.
OffsetOf(arena, p) == p - arena.start

\* scratchStart once arenaPush has given pu = [arena, p].
scratchStartPushed(S, pu, r) ==
    IF pu.p = NULL
    THEN [arena |-> pu.arena, crashed |-> TRUE, p |-> NULL]
    ELSE [arena |-> pu.arena, crashed |-> S.crashed, p |-> arenaAlloc(pu.arena, 0, r).p]

scratchStart(S, r) == scratchStartPushed(S, arenaPush(S.arena, r, r), r)

NeScratchFormatV(S, text, r) ==
    IF S.crashed THEN S
    ELSE [S EXCEPT !.arena = arenaFormatV(S.arena, text, r).arena]

\* The arena after bytes are stored at the address p that arenaAlloc gave.
Stored(arena, p, bytes) == [arena EXCEPT !.mem = MemWrite(@, OffsetOf(arena, p), bytes)]

\* memcpy is skipped when the allocation failed.
NeScratchAddAllocated(S, bytes, al) ==
    IF al.p = NULL THEN [S EXCEPT !.arena = al.arena]
    ELSE [S EXCEPT !.arena = Stored(al.arena, al.p, bytes)]

NeScratchAdd(S, bytes, r) ==
    IF S.crashed THEN S
    ELSE NeScratchAddAllocated(S, bytes, arenaAlloc(S.arena, Len(bytes), r))

\* *p = c is not guarded.
NeScratchAddCharAllocated(S, c, al) ==
    IF al.p = NULL THEN [S EXCEPT !.crashed = TRUE]
    ELSE [S EXCEPT !.arena = Stored(al.arena, al.p, <<c>>)]

NeScratchAddChar(S, c, r) ==
    IF S.crashed THEN S
    ELSE NeScratchAddCharAllocated(S, c, arenaAlloc(S.arena, 1, r))

\* Mutant: the session is left open, arenaPop is not called.
scratchEndAllocated_noPop(S, al) ==
    IF al.p = NULL THEN [S EXCEPT !.crashed = TRUE]
    ELSE [S EXCEPT !.arena = Stored(al.arena, al.p, <<0>>)]

scratchEndAllocated(S, al) ==
    IF al.p = NULL THEN [S EXCEPT !.crashed = TRUE]
    ELSE [S EXCEPT !.arena = arenaPop(Stored(al.arena, al.p, <<0>>))]

scratchEnd(S, r) ==
    IF S.crashed THEN S
    ELSE scratchEndAllocated(S, arenaAlloc(S.arena, 1, r))

\* The NUL-terminated string a caller reads at address p: [valid, text].  The read
\* is invalid when p does not point into the arena's current buffer or runs into
\* bytes that were never written.
\* The offsets from off on at which the read may stop: a NUL, or a byte that was
\* never written.
ReadStops(mem, off) ==
    {k \in DOMAIN mem : k >= off /\ mem[k] = 0}
        \cup {k + 1 : k \in {j \in DOMAIN mem : j >= off /\ j + 1 \notin DOMAIN mem}}
        \cup (IF off \in DOMAIN mem THEN {} ELSE {off})

ReadUpTo(mem, off, acc, stop) ==
    [valid |-> stop \in DOMAIN mem,
     text |-> acc \o [i \in 1..(stop - off) |-> mem[off + i - 1]]]

ReadFirstStop(mem, off, acc, stops) ==
    ReadUpTo(mem, off, acc, CHOOSE k \in stops : \A j \in stops : k <= j)

ReadUntilNul(mem, off, acc) == ReadFirstStop(mem, off, acc, ReadStops(mem, off))

CString(arena, p) ==
    IF p = NULL \/ OffsetOf(arena, p) < 0 \/ OffsetOf(arena, p) >= arena.size
    THEN [valid |-> FALSE, text |-> <<>>]
    ELSE ReadUntilNul(arena.mem, OffsetOf(arena, p), <<>>)

(***************************************************************************)
(* Objects.  The hp maps the address of each block the memory callback   *)
(* handed out to its contents: an object block (GcObj header and payload)  *)
(* or a string buffer.  A string payload is [size, str].                   *)
(***************************************************************************)
SizeofGcObj == 16
HeapBlocks == 3
HeapAddresses == {4096 * i : i \in 1..HeapBlocks}

\* What the memory callback may return for a new block: NULL or the lowest address
\* not in use.
NewBlocks(hp) ==
    LET free == HeapAddresses \ DOMAIN hp
    IN  {NULL} \cup {a \in free : \A x \in free : a <= x}

HeapPut(hp, a, block) == [x \in (DOMAIN hp) \cup {a} |-> IF x = a THEN block ELSE hp[x]]
HeapFree(hp, a) == [x \in (DOMAIN hp) \ {a} |-> hp[x]]

ZeroPayload == [size |-> 0, str |-> NULL]

StringInfo ==
    [name |-> <<"s", "t", "r", "i", "n", "g">>, createFn |-> "stringCreate", deleteFn |-> "stringDelete",
     evalFn |-> "null", toStringFn |-> "stringToString", size |-> 16]

\* sizeof(ObjectInfo): five pointers and an i32, padded.
SizeofObjectInfo == 48

\* (ObjectInfo *)N->objectInfo.start + type, infos being [arena, items]: items
\* maps the offset of a record in the arena's buffer to the record stored there.
ObjectInfoAt(infos, type) == infos.items[type * SizeofObjectInfo]

\* The number of records in the arena.
NumTypes(infos) == infos.arena.cursor \div SizeofObjectInfo

objectType(infos, gcObj) == ObjectInfoAt(infos, gcObj.type)

\* *newInfo = *info at the address arenaAlloc gave; a NULL is written through.
NeObjectRegisterAllocated(infos, info, type, al) ==
    IF al.p = NULL
    THEN [infos |-> infos, type |-> type, crashed |-> TRUE]
    ELSE [infos |-> [arena |-> al.arena,
                     items |-> [o \in (DOMAIN infos.items) \cup {OffsetOf(al.arena, al.p)} |->
                                   IF o = OffsetOf(al.arena, al.p) THEN info
                                   ELSE infos.items[o]]],
          type |-> type, crashed |-> FALSE]

\* NeObjectRegister: [infos, type, crashed], r being what the memory callback
\* returns if the arena has to grow.
\* Mutant: the id is taken after the record has been allocated.
NeObjectRegister_after(infos, info, r) ==
    NeObjectRegisterAllocated(infos, info, NumTypes(infos) + 1,
                              arenaAlloc(infos.arena, SizeofObjectInfo, r))

NeObjectRegister(infos, info, r) ==
    NeObjectRegisterAllocated(infos, info, NumTypes(infos),
                              arenaAlloc(infos.arena, SizeofObjectInfo, r))

\* registerStringType on the arena NeOpen initialised.
registerStringType(arena) ==
    NeObjectRegister([arena |-> arena, items |-> <<>>], StringInfo, NULL).infos

(***************************************************************************)
(* Strings.                                                                *)
(***************************************************************************)
\* First pass of stringCreate: the length it computes for the raw bytes.
RECURSIVE stringCreateLen(_, _, _)
stringCreateLen(raw, i, len) ==
    IF i > Len(raw) THEN len
    ELSE IF raw[i] = Backslash
         THEN IF i < Len(raw) /\ raw[i + 1] = Backslash
              THEN stringCreateLen(raw, i + 1, len + 1)
              ELSE stringCreateLen(raw, i + 1, len)
         ELSE stringCreateLen(raw, i + 1, len + 1)

EscapeValue(c) ==
    CASE c = ChLowerN -> 10
      [] c = ChLowerR -> 13
      [] c = ChLowerT -> 9
      [] c = ChLowerB -> 8
      [] OTHER -> c

\* Second pass of stringCreate: the bytes it stores.
RECURSIVE stringCreateFill(_, _, _)
stringCreateFill(raw, i, out) ==
    IF i > Len(raw) THEN out
    ELSE IF raw[i] = Backslash
         THEN IF i + 1 <= Len(raw)
              THEN stringCreateFill(raw, i + 2, Append(out, EscapeValue(raw[i + 1])))
              ELSE stringCreateFill(raw, i + 2, out)
         ELSE stringCreateFill(raw, i + 1, Append(out, raw[i]))

\* stringCreate on the raw bytes of a Range.  rStr is what the memory callback
\* returns for the buffer.  When the two passes disagree the Debug bld stops on
\* assert(j == len); the Release bld keeps len as the size and leaves the bytes
\* the second pass did not write uninitialised (junk).
stringCreatePasses(len, filled, j, rStr, bld, junk) ==
    IF rStr = NULL
    THEN [ret |-> 0, crashed |-> FALSE, payload |-> [size |-> len, str |-> NULL],
          buffer |-> <<>>]
    ELSE IF j # len /\ bld = "Debug"
    THEN [ret |-> 0, crashed |-> TRUE, payload |-> [size |-> len, str |-> rStr],
          buffer |-> filled]
    ELSE [ret |-> 1, crashed |-> FALSE, payload |-> [size |-> len, str |-> rStr],
          buffer |-> [k \in 1..(NE_MAX(len, j) + 1) |->
                         IF k = len + 1 THEN 0
                         ELSE IF k <= j THEN filled[k] ELSE junk]]

stringCreateFilled(len, filled, rStr, bld, junk) ==
    stringCreatePasses(len, filled, Len(filled), rStr, bld, junk)

stringCreate(raw, rStr, bld, junk) ==
    stringCreateFilled(stringCreateLen(raw, 1, 0), stringCreateFill(raw, 1, <<>>),
                       rStr, bld, junk)

\* stringDelete: frees the buffer.
stringDelete(hp, payload) ==
    IF payload.str = NULL THEN hp ELSE HeapFree(hp, payload.str)

RECURSIVE stringToStringQuoted(_, _, _, _)
stringToStringQuoted(S, bytes, i, r) ==
    IF i > Len(bytes) THEN S
    ELSE stringToStringQuoted(
             CASE bytes[i] = 10 -> NeScratchFormatV(S, TextEscN, r)
               [] bytes[i] = 13 -> NeScratchFormatV(S, TextEscR, r)
               [] bytes[i] = 9  -> NeScratchFormatV(S, TextEscT, r)
               [] bytes[i] = 8  -> NeScratchFormatV(S, TextEscB, r)
               [] OTHER -> NeScratchAddChar(S, bytes[i], r),
             bytes, i + 1, r)

\* stringToString on a string object: payload.size bytes of its buffer.
stringToStringBytes(S, bytes, mode, r) ==
    IF mode = "NSM_Normal"
    THEN NeScratchAdd(S, bytes, r)
    ELSE NeScratchFormatV(
             stringToStringQuoted(NeScratchFormatV(S, TextQuote, r), bytes, 1, r),
             TextQuote, r)

stringToString(S, hp, payload, mode, r) ==
    stringToStringBytes(S, SubSeq(hp[payload.str].bytes, 1, payload.size), mode, r)

(***************************************************************************)
(* Object management.  Callbacks are named by strings, "null" for 0.  The  *)
(* callbacks of an embedder's type: userCreate succeeds or fails as the    *)
(* embedder decides, userDelete touches nothing of the VM.                 *)
(***************************************************************************)
\* What the memory callback is asked to release at the address a: the kind of
\* the block there, or "freed" when no block is there any more.
Released(hp, a) == IF a \in DOMAIN hp THEN hp[a].kind ELSE "freed"

\* The delete callback of the type, if it has one, and the release of the block;
\* freed lists what was released, in order.
objectDeleteOfType(hp, gcObj, info) ==
    [heap |-> HeapFree(IF info.deleteFn = "stringDelete"
                       THEN stringDelete(hp, hp[gcObj].payload) ELSE hp, gcObj),
     called |-> IF info.deleteFn # "null" THEN <<hp[gcObj].serial>> ELSE <<>>,
     freed |-> (IF info.deleteFn = "stringDelete" /\ hp[gcObj].payload.str # NULL
                THEN <<Released(hp, hp[gcObj].payload.str)>> ELSE <<>>)
                   \o <<Released(hp, gcObj)>>]

\* Mutant: the block is freed without the delete callback being invoked.
objectDelete_noCallback(hp, infos, obj) ==
    [heap |-> HeapFree(hp, obj - SizeofGcObj), called |-> <<>>,
     freed |-> <<Released(hp, obj - SizeofGcObj)>>]

\* objectDelete on the payload pointer obj: [hp, called], called being the
\* delete callbacks invoked (the serial numbers of the objects they were invoked
\* for).
objectDelete(hp, infos, obj) ==
    objectDeleteOfType(hp, obj - SizeofGcObj, objectType(infos, hp[obj - SizeofGcObj]))

\* NeObjectCreate.  newObj is what the memory callback returns for the object
\* block; out = [rStr, junk, userOk] are the outcomes of what the create callback
\* does: the address of the string buffer, the uninitialised bytes, the result of
\* an embedder's callback.  The fields raw and serial of a block are not part of the
\* program: they remember the data the object was made from and the number of
\* the NeObjectCreate call that made it (out.serial).
\* The create callback of the type info on the zeroed block fresh at newObj:
\* [ret, crashed, heap], sc being what stringCreate gives.
ObjectCreateFn(hp, info, fresh, newObj, out, sc) ==
    IF info.createFn = "stringCreate"
    THEN [ret |-> sc.ret, crashed |-> sc.crashed,
          heap |-> IF out.rStr = NULL
                   THEN HeapPut(hp, newObj, [fresh EXCEPT !.payload = sc.payload])
                   ELSE HeapPut(HeapPut(hp, newObj, [fresh EXCEPT !.payload = sc.payload]),
                                out.rStr, [kind |-> "buf", bytes |-> sc.buffer])]
    ELSE [ret |-> IF info.createFn = "null" \/ out.userOk THEN 1 ELSE 0,
          crashed |-> FALSE,
          heap |-> HeapPut(hp, newObj, fresh)]

\* The object is deleted again when its create callback failed.
NeObjectCreateFailed(head, deleted) ==
    [heap |-> deleted.heap, gcObjs |-> head, ret |-> NULL, called |-> deleted.called,
     crashed |-> FALSE]

\* Mutant: a failed object is returned to the memory callback without its delete
\* callback, and stays at the head of the list.
NeObjectCreateMade_linked(hp, head, infos, newObj, made) ==
    IF made.crashed
    THEN [heap |-> made.heap, gcObjs |-> head, ret |-> NULL, called |-> <<>>,
          crashed |-> TRUE]
    ELSE [heap |-> made.heap, gcObjs |-> newObj,
          ret |-> IF made.ret = 0 THEN NULL ELSE newObj + SizeofGcObj,
          called |-> <<>>, crashed |-> FALSE]

NeObjectCreateMade(hp, head, infos, newObj, made) ==
    IF made.crashed
    THEN [heap |-> made.heap, gcObjs |-> head, ret |-> NULL, called |-> <<>>,
          crashed |-> TRUE]
    ELSE IF made.ret = 0
    THEN NeObjectCreateFailed(head, objectDelete(made.heap, infos, newObj + SizeofGcObj))
    ELSE [heap |-> made.heap, gcObjs |-> newObj, ret |-> newObj + SizeofGcObj,
          called |-> <<>>, crashed |-> FALSE]

NeObjectCreate(hp, head, infos, type, data, newObj, out, bld) ==
    IF newObj = NULL
    THEN [heap |-> hp, gcObjs |-> head, ret |-> NULL, called |-> <<>>, crashed |-> FALSE]
    ELSE NeObjectCreateMade(
             hp, head, infos, newObj,
             ObjectCreateFn(hp, ObjectInfoAt(infos, type),
                            [kind |-> "obj", type |-> type, next |-> head,
                             payload |-> ZeroPayload, raw |-> data, serial |-> out.serial],
                            newObj, out, stringCreate(data, out.rStr, bld, out.junk)))

\* The loop of NeClose over the GC list: [hp, called].
RECURSIVE NeCloseLoop(_, _, _, _)
\* d is what objectDelete gave for the head of the list.
NeCloseNext(nextObj, infos, called, d) ==
    [NeCloseLoop(d.heap, nextObj, infos, called \o d.called) EXCEPT !.freed = d.freed \o @]

\* Mutant: only the first object of the list is deleted.
NeCloseLoop_first(hp, head, infos, called) ==
    IF head = NULL \/ called # <<>> THEN [heap |-> hp, called |-> called, freed |-> <<>>]
    ELSE NeCloseNext(hp[head].next, infos, called,
                     objectDelete(hp, infos, head + SizeofGcObj))

NeCloseLoop(hp, head, infos, called) ==
    IF head = NULL THEN [heap |-> hp, called |-> called, freed |-> <<>>]
    ELSE NeCloseNext(hp[head].next, infos, called,
                     objectDelete(hp, infos, head + SizeofGcObj))

\* arenaDone: the state it leaves in the Arena structure.
arenaDone(arena) ==
    [start |-> NULL, size |-> 0, cursor |-> 0, restore |-> -1, mem |-> <<>>]

(***************************************************************************)
(* 64-bit integers.  An i64 is held as [t, m, l], standing for             *)
(* t * 10^14 + m * 10^7 + l with 0 <= m, l < 10^7.  An operation of the    *)
(* code gives [v, ub]: the value wrapped to 64 bits, and whether the exact *)
(* result was outside the i64 range (signed overflow, which is undefined). *)
(***************************************************************************)
WBase == 10000000
WNorm(t, m, l) ==
    LET m1 == m + (l \div WBase)
    IN  [t |-> t + (m1 \div WBase), m |-> m1 % WBase, l |-> l % WBase]
WInt(n) == WNorm(0, 0, n)
WAdd(x, y) == WNorm(x.t + y.t, x.m + y.m, x.l + y.l)
WMul(x, k) == WNorm(x.t * k, x.m * k, x.l * k)
WNeg(x) == WMul(x, -1)
WLess(x, y) ==
    \/ x.t < y.t
    \/ x.t = y.t /\ x.m < y.m
    \/ x.t = y.t /\ x.m = y.m /\ x.l < y.l

I64Max == [t |-> 92233, m |-> 7203685, l |-> 4775807]      \* 2^63 - 1
I64Min == WAdd(WNeg(I64Max), WInt(-1))                      \* -2^63
Two64 == [t |-> 184467, m |-> 4407370, l |-> 9551616]       \* 2^64
InI64(x) == ~WLess(x, I64Min) /\ ~WLess(I64Max, x)

RECURSIVE Wrap64(_)
Wrap64(x) ==
    IF WLess(I64Max, x) THEN Wrap64(WAdd(x, WNeg(Two64)))
    ELSE IF WLess(x, I64Min) THEN Wrap64(WAdd(x, Two64))
    ELSE x

\* a * k + d in i64 arithmetic, for an int k and an int d.
I64Checked(prod, sum) == [v |-> Wrap64(sum), ub |-> ~InI64(prod) \/ ~InI64(sum)]
I64Added(prod, d) == I64Checked(prod, WAdd(prod, WInt(d)))
I64MulAdd(a, k, d) == I64Added(WMul(a, k), d)

(***************************************************************************)
(* Lexical analysis.  A source is a sequence of bytes; a position in it is *)
(* the offset from its start.  A char is signed: the bytes from 0x80 up    *)
(* are the negative values.                                                *)
(***************************************************************************)
SignedChar(b) == IF b >= 128 THEN b - 256 ELSE b
CharByte(c) == c % 256

ChSpace == Ord(" ")
ChOpenParen == Ord("(")
ChTab == Ord("\t")
ChNewline == Ord("\n")
ChReturn == Ord("\r")
ChSemicolon == Ord(";")
ChHash == Ord("#")
ChBar == Ord("|")
ChQuote == Ord("\"")
ChMinus == Ord("-")
ChPlus == Ord("+")
ChNine == Ord("9")
ChLowerF == Ord("f")
ChLowerX == Ord("x")
ChLowerZ == Ord("z")
ChUpperA == Ord("A")
ChUpperF == Ord("F")
ChQuestion == Ord("?")
CloseParens == {Ord(")"), Ord("]"), Ord("}")}

NE_IS_WHITESPACE(c) == c = ChSpace \/ c = ChTab \/ c = ChNewline
NE_IS_CLOSE_PAREN(c) == c \in CloseParens
NE_IS_TERMCHAR(c) ==
    NE_IS_WHITESPACE(c) \/ NE_IS_CLOSE_PAREN(c) \/ c = ChColon \/ c = Backslash \/ c = 0

\* The character tokens that are understood: the name as the table holds it (its
\* length less one, a backslash, the name) and the character.
gCharMap ==
    << [name |-> Bytes(<<"5", "\\", "s", "p", "a", "c", "e">>), ch |-> 32],
       [name |-> Bytes(<<"9", "\\", "b", "a", "c", "k", "s", "p", "a", "c", "e">>), ch |-> 8],
       [name |-> Bytes(<<"3", "\\", "t", "a", "b">>), ch |-> 9],
       [name |-> Bytes(<<"7", "\\", "n", "e", "w", "l", "i", "n", "e">>), ch |-> 10],
       [name |-> Bytes(<<"6", "\\", "r", "e", "t", "u", "r", "n">>), ch |-> 13],
       [name |-> Bytes(<<"4", "\\", "b", "e", "l", "l">>), ch |-> 7],
       [name |-> Bytes(<<"3", "\\", "e", "s", "c">>), ch |-> 27] >>

\* The decimal text of a number that is not negative.
RECURSIVE DecimalText(_)
DecimalText(n) ==
    IF n < 10 THEN <<ChZero + n>> ELSE Append(DecimalText(n \div 10), ChZero + (n % 10))

(***************************************************************************)
(* Atoms and printing.                                                     *)
(***************************************************************************)
NeMakeNil == [type |-> "AT_Nil", v |-> 0]
\* Mutant: every boolean atom is true.
NeMakeBool_alwaysTrue(b) == [type |-> "AT_Boolean", v |-> 1]
NeMakeBool(b) == [type |-> "AT_Boolean", v |-> IF b # 0 THEN 1 ELSE 0]
NeMakeChar(c) == [type |-> "AT_Character", v |-> c]
NeMakeInt(i) == [type |-> "AT_Integer", v |-> i]
\* object is a payload pointer; the atom holds the header address.
NeMakeObject(object) == [type |-> "AT_Object", v |-> object - SizeofGcObj]

HexDigit(d) == IF d < 10 THEN ChZero + d ELSE ChLowerA + (d - 10)
RECURSIVE HexText(_)
HexText(n) == IF n < 16 THEN <<HexDigit(n)>> ELSE Append(HexText(n \div 16), HexDigit(n % 16))

\* The default rendering of an object, after the < : its type's name, or "object".
NeToStringName(lt, info, r) ==
    IF info.name # <<>> THEN NeScratchAdd(lt, Bytes(info.name), r)
    ELSE NeScratchFormatV(lt, TextObject, r)

NeToStringObject(S0, hp, info, value, mode, r) ==
    IF info.toStringFn = "stringToString"
    THEN stringToString(S0, hp, hp[value.v].payload, mode, r)
    ELSE NeScratchFormatV(
             NeToStringName(NeScratchAddChar(S0, ChLess, r), info, r),
             <<ChColon>> \o HexText(value.v + SizeofGcObj) \o <<ChGreater>>, r)

\* The text of %lli for an i64.
Pad7(n) == [i \in 1..7 |-> ChZero + ((n \div (10 ^ (7 - i))) % 10)]

I64MagnitudeText(x) ==
    IF x.t > 0 THEN DecimalText(x.t) \o Pad7(x.m) \o Pad7(x.l)
    ELSE IF x.m > 0 THEN DecimalText(x.m) \o Pad7(x.l)
    ELSE DecimalText(x.l)

\* Mutant: the sign is not written.
I64Text_noSign(x) ==
    IF WLess(x, WInt(0)) THEN I64MagnitudeText(WNeg(x))
    ELSE I64MagnitudeText(x)

I64Text(x) ==
    IF WLess(x, WInt(0)) THEN <<ChMinus>> \o I64MagnitudeText(WNeg(x))
    ELSE I64MagnitudeText(x)

\* The text of %02x for (int)c, c being a char: a negative char is converted to
\* an unsigned int of 32 bits.
Hex02(c) ==
    IF c < 0 THEN [i \in 1..6 |-> ChLowerF] \o HexText(c + 256)
    ELSE IF c < 16 THEN <<ChZero>> \o HexText(c)
    ELSE HexText(c)

\* A character printed as itself, or as ? when it is not one that shows.
NeToStringCharPlain(S, c, r) ==
    IF NE_IS_WHITESPACE(c) \/ c = ChReturn \/ c = 8 \/ c = 27 \/ (c > ChSpace /\ c < 127)
    THEN NeScratchAdd(S, <<CharByte(c)>>, r)
    ELSE NeScratchFormatV(S, <<ChQuestion>>, r)

\* The long name of a character from gCharMap, or its hex version.
NeToStringCharLong(S, c, r) ==
    IF \E i \in 1..Len(gCharMap) : gCharMap[i].ch = c
    THEN NeScratchFormatV(
             S, LET name == gCharMap[CHOOSE i \in 1..Len(gCharMap) : gCharMap[i].ch = c].name
                IN  SubSeq(name, 3, Len(name)), r)
    ELSE NeScratchFormatV(S, <<ChHash, ChLowerX>> \o Hex02(c), r)

NeToStringChar(S, c, mode, r) ==
    IF mode = "NSM_Normal" THEN NeToStringCharPlain(S, c, r)
    ELSE IF c <= ChSpace \/ c > 126
    THEN NeToStringCharLong(NeScratchFormatV(S, <<Backslash>>, r), c, r)
    ELSE NeToStringCharPlain(NeScratchFormatV(S, <<Backslash>>, r), c, r)

NeToStringValue(S0, hp, infos, value, mode, r) ==
    CASE value.type = "AT_Nil" -> NeScratchFormatV(S0, TextNil, r)
      [] value.type = "AT_Integer" -> NeScratchFormatV(S0, I64Text(value.v), r)
      [] value.type = "AT_Character" ->
            NeToStringChar(S0, SignedChar(CharByte(value.v)), mode, r)
      [] value.type = "AT_Boolean" ->
            NeScratchFormatV(S0, IF value.v # 0 THEN TextYes ELSE TextNo, r)
      [] value.type = "AT_Object" ->
            NeToStringObject(S0, hp, objectType(infos, hp[value.v]), value, mode, r)

NeToStringEnded(S1, p) == [arena |-> S1.arena, crashed |-> S1.crashed, p |-> p]

NeToStringStarted(st, hp, infos, value, mode, r) ==
    NeToStringEnded(
        scratchEnd(NeToStringValue([arena |-> st.arena, crashed |-> st.crashed],
                                   hp, infos, value, mode, r), r),
        st.p)

\* NeToString: [arena, crashed, p].
NeToString(arena, hp, infos, value, mode, r) ==
    NeToStringStarted(scratchStart(Scratch(arena), r), hp, infos, value, mode, r)

(***************************************************************************)
(* Tokens.                                                                 *)
(***************************************************************************)
NeToken_Error == -99
NeToken_EOF == 0
NeToken_Number == 1
NeToken_Symbol == 2
NeToken_Character == 3
NeToken_String == 4
NeToken_KEYWORDS == 5
NeToken_Nil == 5
NeToken_Yes == 6
NeToken_No == 7

\* gNameChar[c + 1] is the entry of the table for the character c in 0..127.
gNameChar ==
    << 0, 0, 0, 0, 0, 0, 0, 0, 0, 0, 0, 0, 0, 0, 0, 0,
       0, 0, 0, 0, 0, 0, 0, 0, 0, 0, 0, 0, 0, 0, 0, 0,
       0, 1, 0, 1, 1, 1, 1, 0, 0, 0, 1, 1, 0, 1, 0, 1,
       2, 2, 2, 2, 2, 2, 2, 2, 2, 2, 0, 0, 1, 1, 1, 1,
       1, 1, 1, 1, 1, 1, 1, 1, 1, 1, 1, 1, 1, 1, 1, 1,
       1, 1, 1, 1, 1, 1, 1, 1, 1, 1, 1, 0, 0, 0, 1, 1,
       0, 1, 1, 1, 1, 1, 1, 1, 1, 1, 1, 1, 1, 1, 1, 1,
       1, 1, 1, 1, 1, 1, 1, 1, 1, 1, 1, 0, 1, 0, 1, 0 >>

\* gKeyWordHashes[(h & 0xf) + 1]: the keyword tokens of a hash bucket, one to a byte.
gKeyWordHashes ==
    << NeToken_Yes, 0, 0, 0, 0, 0, 0, 0, 0, 0, NeToken_No, 0, NeToken_Nil, 0, 0, 0 >>

\* gKeywords[index + 1]: the length of the keyword as a digit, and the keyword.
gKeywords ==
    << Bytes(<<"3", "n", "i", "l">>), Bytes(<<"3", "y", "e", "s">>), Bytes(<<"2", "n", "o">>) >>

\* Bitwise exclusive or of two bytes.
RECURSIVE BitXor(_, _, _)
BitXor(a, b, bits) ==
    IF bits = 0 THEN 0
    ELSE ((a + b) % 2) + 2 * BitXor(a \div 2, b \div 2, bits - 1)

\* The low byte of the FNV-1a hash of the bytes: the low byte of a product is the
\* product of the low bytes, and nothing but h & 0xf is ever used.  0x25 is the
\* low byte of the offset basis, 0xb3 that of the prime.
HashBasisLow == 37
HashPrimeLow == 179
RECURSIVE hash(_, _)
hash(bytes, h) ==
    IF bytes = <<>> THEN h
    ELSE hash(Tail(bytes), (BitXor(h, bytes[1], 8) * HashPrimeLow) % 256)

\* The NeLex a scan starts from.  ungot and twice are not part of the program:
\* ungot tells that nothing was read since the last ungetChar, twice that ungetChar
\* was once applied in that state.
NeLexStart(source) ==
    [line |-> 1, lastLine |-> 1, cursor |-> 0, lastCursor |-> 0, end |-> Len(source),
     ungot |-> FALSE, twice |-> FALSE]

\* What nextChar gives when it reads a line end: a \n after a \r is skipped.
nextCharLineEnd(source, b, L3) ==
    IF b = ChReturn /\ L3.cursor < L3.end /\ source[L3.cursor + 1] = ChNewline
    THEN [L |-> [L3 EXCEPT !.cursor = @ + 1], c |-> ChNewline]
    ELSE [L |-> L3, c |-> ChNewline]

\* nextChar when the byte b is read, L2 being the NeLex past it.
nextCharRead(source, b, L2) ==
    IF b = ChReturn \/ b = ChNewline
    THEN nextCharLineEnd(source, b, [L2 EXCEPT !.line = @ + 1])
    ELSE [L |-> L2, c |-> SignedChar(b)]

\* nextChar: [L, c].
nextChar(source, L) ==
    IF L.cursor = L.end
    THEN [L |-> [L EXCEPT !.lastCursor = L.cursor, !.lastLine = L.line,
                          !.ungot = FALSE], c |-> 0]
    ELSE nextCharRead(source, source[L.cursor + 1],
                      [L EXCEPT !.lastCursor = L.cursor, !.lastLine = L.line,
                                !.ungot = FALSE,
                                !.cursor = @ + 1])

ungetChar(L) ==
    [L EXCEPT !.line = L.lastLine, !.cursor = L.lastCursor,
              !.twice = @ \/ L.ungot, !.ungot = TRUE]

(***************************************************************************)
(* lexNext.  It gives [L, token, built, info, error, ub]: the NeLexInfo it *)
(* hands to lexBuild (built), or the message it hands to lexError (token   *)
(* NeToken_Error), and whether the value was computed with a signed        *)
(* overflow (ub).                                                          *)
(***************************************************************************)
NoInfo == [start |-> 0, end |-> 0, line |-> 0, token |-> NeToken_EOF, atom |-> NeMakeNil]

LexEnded(L) ==
    [L |-> L, token |-> NeToken_EOF, built |-> FALSE, info |-> NoInfo, error |-> <<>>,
     ub |-> FALSE, outside |-> <<>>]

LexBuilt(L, start, end, token, atom, ub) ==
    [L |-> L, token |-> token, built |-> TRUE,
     info |-> [start |-> start, end |-> end, line |-> L.line, token |-> token, atom |-> atom],
     error |-> <<>>, ub |-> ub, outside |-> <<>>]

LexFailed(L, message) ==
    [L |-> L, token |-> NeToken_Error, built |-> FALSE, info |-> NoInfo,
     error |-> message, ub |-> FALSE, outside |-> <<>>]

\* gNameChar[c] is read with an index c outside the 128 entries of the table:
\* what is read is undefined, and the scan is followed no further.
LexOutside(L, c) ==
    [L |-> L, token |-> NeToken_Error, built |-> FALSE, info |-> NoInfo,
     error |-> <<>>, ub |-> FALSE, outside |-> <<c>>]

MsgUnterminated ==
    Bytes(<<"U", "n", "t", "e", "r", "m", "i", "n", "a", "t", "e", "d", " ",
            "s", "t", "r", "i", "n", "g", ".">>)
MsgSymbols ==
    Bytes(<<"S", "y", "m", "b", "o", "l", "s", " ", "n", "o", "t", " ",
            "i", "m", "p", "l", "e", "m", "e", "n", "t", "e", "d", " ", "y", "e", "t", "!">>)
MsgInvalidCharacter ==
    Bytes(<<"I", "n", "v", "a", "l", "i", "d", " ", "c", "h", "a", "r", "a", "c", "t", "e", "r",
            " ", "t", "o", "k", "e", "n", ".">>)
MsgUnknownCharacter ==
    Bytes(<<"U", "n", "k", "n", "o", "w", "n", " ", "c", "h", "a", "r", "a", "c", "t", "e", "r",
            " ", "t", "o", "k", "e", "n", ".">>)
MsgUnknownToken ==
    Bytes(<<"U", "n", "k", "n", "o", "w", "n", " ", "t", "o", "k", "e", "n">>)

\* In the operators below n = [L, c] is what the last nextChar gave: the NeLex
\* and the character read.

\* The loop that reads to the end of a line: [L, c].
RECURSIVE lexNextLineComment(_, _)
\* Mutant: the loop reads to the end of the source.
lexNextLineComment_toEnd(source, n) ==
    IF n.c # 0
    THEN lexNextLineComment(source, nextChar(source, n.L))
    ELSE n

lexNextLineComment(source, n) ==
    IF n.c # 0 /\ n.c # ChNewline
    THEN lexNextLineComment(source, nextChar(source, n.L))
    ELSE n

\* The loop that reads a nestable comment: [L, c].
RECURSIVE lexNextBlockComment(_, _, _)
\* After a # or a |, n2 is the character that follows: the mark | or # changes the depth.
lexNextBlockCommentPair(source, n2, depth, mark, change) ==
    lexNextBlockComment(source, n2, IF n2.c = mark THEN depth + change ELSE depth)

lexNextBlockCommentChar(source, n1, depth) ==
    IF n1.c = ChHash
    THEN lexNextBlockCommentPair(source, nextChar(source, n1.L), depth, ChBar, 1)
    ELSE IF n1.c = ChBar
    THEN lexNextBlockCommentPair(source, nextChar(source, n1.L), depth, ChHash, -1)
    ELSE lexNextBlockComment(source, n1, depth)

lexNextBlockComment(source, n, depth) ==
    IF n.c # 0 /\ depth # 0
    THEN lexNextBlockCommentChar(source, nextChar(source, n.L), depth)
    ELSE n

\* The loop that finds the next meaningful character: [L, c].
RECURSIVE lexNextSkip(_, _)
\* After a #, n is the character that follows.
lexNextSkipHash(source, n) ==
    IF n.c = ChBar THEN lexNextSkip(source, lexNextBlockComment(source, n, 1))
    ELSE IF NE_IS_WHITESPACE(n.c) THEN lexNextSkip(source, lexNextLineComment(source, n))
    ELSE lexNextSkip(source, n)

lexNextSkip(source, n) ==
    IF n.c = 0 THEN n
    ELSE IF NE_IS_WHITESPACE(n.c) THEN lexNextSkip(source, nextChar(source, n.L))
    ELSE IF n.c = ChSemicolon THEN lexNextSkip(source, lexNextLineComment(source, n))
    ELSE IF n.c = ChHash THEN lexNextSkipHash(source, nextChar(source, n.L))
    ELSE n

IsDigit(c) == c >= ChZero /\ c <= ChNine

\* State 100 of a number: the token is built from sign * intPart.
lexNextNumberBuilt(L1, s0, value, ub) ==
    LexBuilt(L1, s0, L1.cursor, NeToken_Number, NeMakeInt(value.v), ub \/ value.ub)

\* The state machine of a number, in the given state with the character n.c.
RECURSIVE lexNextNumber(_, _, _, _, _, _, _)
\* State 2 after intPart = intPart * base + (c - '0') gave acc and nextChar n.
lexNextNumberDigit(source, n, s0, sign, acc, ub) ==
    IF acc.ub
    THEN lexNextNumber(source, n, s0, IF n.c < ChZero \/ n.c > ChNine THEN 100 ELSE 2,
                       sign, acc.v, TRUE)
    ELSE lexNextNumber(source, n, s0, IF n.c < ChZero \/ n.c > ChNine THEN 100 ELSE 2,
                       sign, acc.v, ub)

lexNextNumber(source, n, s0, state, sign, intPart, ub) ==
    CASE state = 0 ->
            lexNextNumber(source, n, s0, IF IsDigit(n.c) THEN 2 ELSE 1, sign, intPart, ub)
      [] state = 1 ->
            lexNextNumber(source, nextChar(source, n.L), s0, 2,
                          IF n.c = ChMinus THEN -1 ELSE sign, intPart, ub)
      [] state = 2 ->
            lexNextNumberDigit(source, nextChar(source, n.L), s0, sign,
                               I64MulAdd(intPart, 10, n.c - ChZero), ub)
      [] OTHER ->
            lexNextNumberBuilt(ungetChar(n.L), s0, I64MulAdd(intPart, sign, 0), ub)

\* The loop over the tokens of a hash bucket; text is the name read.
RECURSIVE lexNextKeyword(_, _, _, _)
\* Mutant: a keyword of the bucket with the length of the name is taken without
\* its bytes being compared.
lexNextKeywordAt_lengthOnly(L, s0, text, tokens, index, keyword) ==
    IF keyword[1] - ChZero = Len(text)
    THEN LexBuilt(L, s0, L.cursor, NeToken_KEYWORDS + index, NeMakeNil, FALSE)
    ELSE lexNextKeyword(L, s0, text, tokens \div 256)

lexNextKeywordAt(L, s0, text, tokens, index, keyword) ==
    IF keyword[1] - ChZero = Len(text) /\ SubSeq(keyword, 2, Len(text) + 1) = text
    THEN LexBuilt(L, s0, L.cursor, NeToken_KEYWORDS + index, NeMakeNil, FALSE)
    ELSE lexNextKeyword(L, s0, text, tokens \div 256)

lexNextKeyword(L, s0, text, tokens) ==
    IF tokens = 0 THEN LexFailed(L, MsgSymbols)
    ELSE lexNextKeywordAt(L, s0, text, tokens, (tokens % 256) - NeToken_KEYWORDS,
                          gKeywords[(tokens % 256) - NeToken_KEYWORDS + 1])

\* The name read is text: its hash selects the keywords to compare it with.
lexNextNameText(L1, s0, text) ==
    lexNextKeyword(L1, s0, text, gKeyWordHashes[(hash(text, HashBasisLow) % 16) + 1])

lexNextNameRead(source, L1, s0) ==
    lexNextNameText(L1, s0, SubSeq(source, s0 + 1, L1.cursor))

\* A keyword or a symbol, from its first character n.c.
RECURSIVE lexNextName(_, _, _)
\* Mutant: the character after the name is pushed back twice.
lexNextName_ungetTwice(source, n, s0) ==
    IF n.c \notin 0..127 THEN LexOutside(n.L, n.c)
    ELSE IF gNameChar[n.c + 1] # 0
    THEN lexNextName(source, nextChar(source, n.L), s0)
    ELSE lexNextNameRead(source, ungetChar(ungetChar(n.L)), s0)

lexNextName(source, n, s0) ==
    IF n.c \notin 0..127 THEN LexOutside(n.L, n.c)
    ELSE IF gNameChar[n.c + 1] # 0
    THEN lexNextName(source, nextChar(source, n.L), s0)
    ELSE lexNextNameRead(source, ungetChar(n.L), s0)

\* A string, from the character n.c after the opening double quote.
RECURSIVE lexNextString(_, _, _)
lexNextString(source, n, s0) ==
    IF n.c # 0 /\ n.c # ChNewline /\ n.c # ChQuote
    THEN lexNextString(source, nextChar(source, n.L), s0)
    ELSE IF n.c = ChQuote
    THEN LexBuilt(n.L, s0, n.L.cursor - 1, NeToken_String, NeMakeNil, FALSE)
    ELSE LexFailed(n.L, MsgUnterminated)

\* The Character token that is built after ungetChar gave L1.
LexBuiltChar(L1, s0, ch) ==
    LexBuilt(L1, s0, L1.cursor, NeToken_Character, NeMakeChar(ch), FALSE)

HexValue(c) ==
    IF c >= ChZero /\ c <= ChNine THEN c - ChZero
    ELSE IF c >= ChLowerA /\ c <= ChLowerF THEN c - ChLowerA + 10
    ELSE c - ChUpperA + 10

\* A character written in hexadecimal, after the x: ch is the char read so far.
RECURSIVE lexNextHexChar(_, _, _, _, _)
lexNextHexDigit(source, n, s0, ch, maxNumChars) ==
    IF (n.c > ChZero /\ n.c <= ChNine) \/ (n.c >= ChLowerA /\ n.c <= ChLowerF)
            \/ (n.c >= ChUpperA /\ n.c <= ChUpperF)
    THEN IF maxNumChars - 1 < 0 THEN LexFailed(n.L, MsgUnknownCharacter)
         ELSE lexNextHexChar(source, n.L, s0, (ch * 16 + HexValue(n.c)) % 256,
                             maxNumChars - 1)
    ELSE IF ~NE_IS_TERMCHAR(n.c) THEN LexFailed(n.L, MsgUnknownCharacter)
    ELSE LexBuiltChar(ungetChar(n.L), s0, ch)

lexNextHexChar(source, L, s0, ch, maxNumChars) ==
    lexNextHexDigit(source, nextChar(source, L), s0, ch, maxNumChars)

\* A character written in decimal, after its first digit.
RECURSIVE lexNextDecChar(_, _, _, _)
lexNextDecDigit(source, n, s0, ch) ==
    IF IsDigit(n.c) THEN lexNextDecChar(source, n.L, s0, (ch * 10 + (n.c - ChZero)) % 256)
    ELSE IF ~NE_IS_TERMCHAR(n.c) THEN LexFailed(n.L, MsgUnknownCharacter)
    ELSE LexBuiltChar(ungetChar(n.L), s0, ch)

lexNextDecChar(source, L, s0, ch) == lexNextDecDigit(source, nextChar(source, L), s0, ch)

\* The loop over gCharMap, from its entry i; text is the token read.
RECURSIVE lexNextCharMap(_, _, _, _)
\* Mutant: an entry with the length of the token is taken without its bytes being
\* compared.
lexNextCharMap_lengthOnly(L, s0, text, i) ==
    IF i > Len(gCharMap) THEN LexFailed(L, MsgUnknownCharacter)
    ELSE IF gCharMap[i].name[1] - ChZero + 1 = Len(text)
    THEN LexBuilt(L, s0, L.cursor, NeToken_Character, NeMakeChar(gCharMap[i].ch), FALSE)
    ELSE lexNextCharMap(L, s0, text, i + 1)

lexNextCharMap(L, s0, text, i) ==
    IF i > Len(gCharMap) THEN LexFailed(L, MsgUnknownCharacter)
    ELSE IF gCharMap[i].name[1] - ChZero + 1 = Len(text) /\ Tail(gCharMap[i].name) = text
    THEN LexBuilt(L, s0, L.cursor, NeToken_Character, NeMakeChar(gCharMap[i].ch), FALSE)
    ELSE lexNextCharMap(L, s0, text, i + 1)

lexNextCharNamed(source, L1, s0) ==
    lexNextCharMap(L1, s0, SubSeq(source, s0 + 1, L1.cursor), 1)

\* The loop over the letters of a long character name, n.c being the one read last.
RECURSIVE lexNextLongChar(_, _, _)
lexNextLongChar(source, n, s0) ==
    IF ~NE_IS_TERMCHAR(n.c)
    THEN IF n.c < ChLowerA \/ n.c > ChLowerZ THEN LexFailed(n.L, MsgUnknownCharacter)
         ELSE lexNextLongChar(source, nextChar(source, n.L), s0)
    ELSE lexNextCharNamed(source, ungetChar(n.L), s0)

\* A character ch that has been read, n being the character after it: a single
\* character, or the first of a name.
lexNextCharTail(source, n, s0, ch) ==
    IF NE_IS_TERMCHAR(n.c) THEN LexBuiltChar(ungetChar(n.L), s0, CharByte(ch))
    ELSE lexNextLongChar(source, n, s0)

\* After backslash and #, n2 is the character that follows.
lexNextCharHash(source, n2, s0) ==
    IF NE_IS_TERMCHAR(n2.c) \/ n2.c = ChHash THEN LexBuiltChar(ungetChar(n2.L), s0, ChHash)
    ELSE IF n2.c = ChLowerX THEN lexNextHexChar(source, n2.L, s0, 0, 2)
    ELSE IF IsDigit(n2.c) THEN lexNextDecChar(source, n2.L, s0, n2.c - ChZero)
    ELSE lexNextCharTail(source, nextChar(source, n2.L), s0, ChHash)

\* A character token, from the backslash at s0; n is the character after it.
lexNextCharacter(source, n, s0) ==
    IF n.c = 0 \/ NE_IS_WHITESPACE(n.c) THEN LexFailed(n.L, MsgInvalidCharacter)
    ELSE IF n.c # ChHash THEN lexNextCharTail(source, nextChar(source, n.L), s0, n.c)
    ELSE lexNextCharHash(source, nextChar(source, n.L), s0)

\* The token that starts at the meaningful character k.c, at offset s0.
lexNextToken(source, k, s0) ==
    IF k.c = 0 THEN LexEnded(k.L)
    ELSE IF IsDigit(k.c) \/ k.c = ChMinus \/ k.c = ChPlus
    THEN lexNextNumber(source, k, s0, 0, 1, WInt(0), FALSE)
    ELSE IF k.c \notin 0..127 THEN LexOutside(k.L, k.c)
    ELSE IF gNameChar[k.c + 1] = 1 THEN lexNextName(source, k, s0)
    ELSE IF k.c = ChQuote THEN lexNextString(source, nextChar(source, k.L), k.L.cursor)
    ELSE IF k.c = Backslash THEN lexNextCharacter(source, nextChar(source, k.L), s0)
    ELSE LexFailed(k.L, MsgUnknownToken)

lexNextSkipped(source, k) == lexNextToken(source, k, k.L.cursor - 1)

lexNext(source, L) ==
    IF L.cursor = L.end THEN LexEnded(L)
    ELSE lexNextSkipped(source, lexNextSkip(source, nextChar(source, L)))

(***************************************************************************)
(* The lexemes of a scan and the report of a lex error.  The token arena   *)
(* is [arena, items, crashed]: items maps the offset of each NeLexInfo     *)
(* written to its contents.                                                *)
(***************************************************************************)
SizeofNeLexInfo == 48

\* The NeLexInfo is written through the pointer ARENA_ALLOC gave, null or not.
lexBuildAllocated(info, li, al) ==
    IF al.p = NULL THEN [info EXCEPT !.arena = al.arena, !.crashed = TRUE]
    ELSE [info EXCEPT !.arena = al.arena,
                      !.items = (OffsetOf(al.arena, al.p) :> li) @@ @]

lexBuild(info, li, r) ==
    lexBuildAllocated(info, li, arenaAlignedAlloc(info.arena, SizeofNeLexInfo, r, r))

\* The callback is invoked with the message at p once the session has ended.
NeOutVEnded(S, done, p) ==
    [arena |-> done.arena, crashed |-> done.crashed,
     log |-> IF done.crashed THEN S.log ELSE Append(S.log, CString(done.arena, p))]

NeOutVStarted(S, msg, text, r) ==
    NeOutVEnded(S,
                scratchEnd(NeScratchFormatV([arena |-> msg.arena, crashed |-> msg.crashed],
                                            text, r), r),
                msg.p)

\* Mutant: the output callback is never invoked.
NeOutV_noCallback(fn, S, text, r) == S

\* NeOutV on the scratch state S = [arena, crashed, log], text being the rendering
\* of the format and its arguments; fn tells whether an output callback is set,
\* log is the messages the callback has been invoked with ([valid, text]).
NeOutV(fn, S, text, r) ==
    IF ~fn \/ S.crashed THEN S
    ELSE NeOutVStarted(S, scratchStart(S, r), text, r)

TextLexError ==
    Bytes(<<")", ":", " ", "L", "E", "X", " ", "E", "R", "R", "O", "R", ":", " ">>)
OverlapOutcomes == {"copied", "garbled"}

\* lexErrorV.  The second NeOut is given errorMsg, a pointer into the scratch
\* arena, as its format: the text is read where the session NeOut starts writes.
\* When the two overlap vsnprintf is undefined, and `overlap` is what it does:
\* the text is copied onto itself, or it is lost.
lexErrorVDone(s3, clash) ==
    [arena |-> s3.arena, crashed |-> s3.crashed, log |-> s3.log, clash |-> clash]

\* NeOut(N, errorMsg) and NeOut(N, "\n"): the format is read at errorMsg while the
\* session of NeOut writes from msg.p.
lexErrorVOut(fn, S2, errorMsg, msg, format, clash, r, overlap) ==
    lexErrorVDone(
        NeOutV(fn, NeOutV(fn, S2, IF clash /\ overlap = "garbled" THEN <<>> ELSE format.text,
                          r),
               <<ChNewline>>, r),
        clash)

lexErrorVFormat(fn, S2, errorMsg, msg, format, r, overlap) ==
    lexErrorVOut(fn, S2, errorMsg, msg, format,
                 /\ fn /\ ~msg.crashed
                 /\ errorMsg <= msg.p + Len(format.text)
                 /\ msg.p <= errorMsg + Len(format.text),
                 r, overlap)

lexErrorVSession(fn, S2, errorMsg, msg, r, overlap) ==
    lexErrorVFormat(fn, S2, errorMsg, msg, CString(msg.arena, errorMsg), r, overlap)

lexErrorVMessage(fn, log, errorMsg, e2, r, overlap) ==
    lexErrorVSession(fn, [arena |-> e2.arena, crashed |-> e2.crashed, log |-> log],
                     errorMsg, scratchStart(e2, r), r, overlap)

lexErrorVStarted(fn, log, e0, message, r, overlap) ==
    lexErrorVMessage(fn, log, e0.p,
                     scratchEnd(NeScratchFormatV([arena |-> e0.arena, crashed |-> e0.crashed],
                                                 message, r), r),
                     r, overlap)

lexErrorVReported(fn, s1, message, r, overlap) ==
    lexErrorVStarted(fn, s1.log, scratchStart(s1, r), message, r, overlap)

lexErrorV(fn, S, origin, L, message, r, overlap) ==
    lexErrorVReported(
        fn, NeOutV(fn, S, origin \o <<ChOpenParen>> \o DecimalText(L.line) \o TextLexError, r),
        message, r, overlap)

\* The loop of lex: [L, info, last, ub], last being what the last lexNext gave.
RECURSIVE lexLoop(_, _, _, _, _)
\* x is what lexNext gave and b the token arena after it.
lexLoopBuilt(source, x, b, ub, r) ==
    IF x.token = NeToken_Error \/ x.token = NeToken_EOF \/ b.crashed
    THEN [L |-> x.L, info |-> b, last |-> x, ub |-> ub \/ x.ub]
    ELSE IF x.ub THEN lexLoop(source, x.L, b, TRUE, r)
    ELSE lexLoop(source, x.L, b, ub, r)

lexLoopNext(source, x, info, ub, r) ==
    lexLoopBuilt(source, x, IF x.built THEN lexBuild(info, x.info, r) ELSE info, ub, r)

lexLoop(source, L, info, ub, r) == lexLoopNext(source, lexNext(source, L), info, ub, r)

\* lex, given the buffer the memory callback returned for the token arena
\* (buffer # NULL): [ok, info, out, S, ub, clash], info being the tokens the scan
\* built and out the Arena given back through outArena.
lexFailed(scan, err) ==
    [ok |-> 0, info |-> scan.info, out |-> arenaDone(scan.info.arena),
     S |-> [arena |-> err.arena, crashed |-> err.crashed, log |-> err.log],
     ub |-> scan.ub, clash |-> err.clash, outside |-> <<>>]

lexScanned(fn, S, origin, scan, r, overlap) ==
    IF scan.info.crashed
    THEN [ok |-> 0, info |-> scan.info, out |-> scan.info.arena,
          S |-> [S EXCEPT !.crashed = TRUE], ub |-> scan.ub, clash |-> FALSE,
          outside |-> <<>>]
    ELSE IF scan.last.outside # <<>>
    THEN [ok |-> 0, info |-> scan.info, out |-> scan.info.arena, S |-> S,
          ub |-> scan.ub, clash |-> FALSE, outside |-> scan.last.outside]
    ELSE IF scan.last.token = NeToken_Error
    THEN lexFailed(scan, lexErrorV(fn, S, origin, scan.L, scan.last.error, r, overlap))
    ELSE [ok |-> 1, info |-> scan.info, out |-> scan.info.arena, S |-> S,
          ub |-> scan.ub, clash |-> FALSE, outside |-> <<>>]

lex(fn, S, origin, source, buffer, r, overlap) ==
    lexScanned(fn, S, origin,
               lexLoop(source, NeLexStart(source),
                       [arena |-> arenaInit(buffer, 4096), items |-> <<>>,
                        crashed |-> FALSE], FALSE, r),
               r, overlap)

(***************************************************************************)
(* Reading and execution.  The memory callback's answers to the NeAlloc    *)
(* calls of one NeRun are planned by failAt: the call with that number     *)
(* returns NULL (none when 0), every other the lowest address not in use.  *)
(* A state of the run is [heap, gcObjs, allocs, serial, made, called,      *)
(* outResult, crashed, ret, read].                                         *)
(***************************************************************************)
LowestFree(hp) ==
    LET free == HeapAddresses \ DOMAIN hp
    IN  IF free = {} THEN NULL ELSE CHOOSE a \in free : \A x \in free : a <= x

NeAllocPlanned(hp, k, failAt) == IF k = failAt THEN NULL ELSE LowestFree(hp)

\* Mutant: the new string is not put on the GC list.
NeMakeStringRanged_unlinked(st, newObj, oc) ==
    [st EXCEPT !.heap = oc.heap,
               !.allocs = @ + (IF newObj = NULL THEN 1 ELSE 2),
               !.serial = @ + 1,
               !.made = IF oc.ret # NULL
                        THEN Append(@, [serial |-> st.serial + 1, type |-> 0,
                                        hasDelete |-> TRUE])
                        ELSE @,
               !.called = @ \o oc.called,
               !.crashed = oc.crashed,
               !.outResult = NeMakeObject(oc.ret)]

\* The state after NeMakeStringRanged, oc being what NeObjectCreate gave for the
\* block newObj.
NeMakeStringRanged(st, newObj, oc) ==
    [st EXCEPT !.heap = oc.heap, !.gcObjs = oc.gcObjs,
               !.allocs = @ + (IF newObj = NULL THEN 1 ELSE 2),
               !.serial = @ + 1,
               !.made = IF oc.ret # NULL
                        THEN Append(@, [serial |-> st.serial + 1, type |-> 0,
                                        hasDelete |-> TRUE])
                        ELSE @,
               !.called = @ \o oc.called,
               !.crashed = oc.crashed,
               !.outResult = NeMakeObject(oc.ret)]

\* nextAtom on the token t: [result, st], the atom read being st.outResult.
\* The string object of the raw bytes, in the blocks newObj and rStr.
NeMakeStringIn(raw, st, infos, bld, in, newObj, rStr) ==
    NeMakeStringRanged(st, newObj,
                       NeObjectCreate(st.heap, st.gcObjs, infos, 0, raw, newObj,
                                      [rStr |-> rStr, junk |-> in.junk, userOk |-> TRUE,
                                       serial |-> st.serial + 1], bld))

NeMakeStringAt(raw, st, infos, bld, in, newObj) ==
    NeMakeStringIn(raw, st, infos, bld, in, newObj,
                   IF newObj = NULL THEN NULL
                   ELSE NeAllocPlanned(HeapPut(st.heap, newObj, <<>>), st.allocs + 2,
                                       in.failAt))

nextAtom(t, source, st, infos, bld, in) ==
    CASE t.token = NeToken_Number \/ t.token = NeToken_Character ->
            [result |-> 1, st |-> [st EXCEPT !.outResult = t.atom]]
      [] t.token = NeToken_Yes ->
            [result |-> 1, st |-> [st EXCEPT !.outResult = NeMakeBool(1)]]
      [] t.token = NeToken_No ->
            [result |-> 1, st |-> [st EXCEPT !.outResult = NeMakeBool(0)]]
      [] t.token = NeToken_String ->
            [result |-> 1,
             st |-> NeMakeStringAt(SubSeq(source, t.start + 1, t.end), st, infos, bld, in,
                                   NeAllocPlanned(st.heap, st.allocs + 1, in.failAt))]
      [] OTHER -> [result |-> 0, st |-> st]

\* objectEval: [ret, result, crashed].  cb is what an evaluate callback gives; the
\* header is read through the atom's pointer, which must address a live object.
\* Mutant: the outcome of the evaluate callback is dropped.
objectEval_ignored(hp, infos, a, cb) ==
    IF a.v \notin DOMAIN hp THEN [ret |-> 0, result |-> a, crashed |-> TRUE]
    ELSE [ret |-> 1, result |-> a, crashed |-> FALSE]

objectEval(hp, infos, a, cb) ==
    IF a.v \notin DOMAIN hp THEN [ret |-> 0, result |-> a, crashed |-> TRUE]
    ELSE IF objectType(infos, hp[a.v]).evalFn # "null"
    THEN [ret |-> cb.ret, result |-> cb.result, crashed |-> FALSE]
    ELSE [ret |-> 1, result |-> a, crashed |-> FALSE]

eval(hp, infos, a, cb) ==
    IF a.type = "AT_Object" THEN objectEval(hp, infos, a, cb)
    ELSE [ret |-> 1, result |-> a, crashed |-> FALSE]

\* The loop of NeRun over the tokens, from token i.
RECURSIVE NeRunLoop(_, _, _, _, _, _, _)
\* a is what nextAtom gave for token i and e what eval gave for its atom.
NeRunEvaluated(tokens, i, source, a, e, infos, bld, in) ==
    IF e.crashed THEN [a.st EXCEPT !.crashed = TRUE]
    ELSE IF e.ret = 0 THEN [a.st EXCEPT !.outResult = e.result]
    ELSE NeRunLoop(tokens, i + 1, source,
                   [a.st EXCEPT !.outResult = e.result, !.read = @ + 1], infos, bld, in)

\* Mutant: a read that fails sets the output slot to Nil.
NeRunRead_reset(tokens, i, source, a, infos, bld, in) ==
    IF a.st.crashed THEN a.st
    ELSE IF a.result = 0 THEN [a.st EXCEPT !.outResult = NeMakeNil]
    ELSE NeRunEvaluated(tokens, i, source, a,
                        eval(a.st.heap, infos, a.st.outResult, in.evalCb), infos, bld, in)

NeRunRead(tokens, i, source, a, infos, bld, in) ==
    IF a.st.crashed \/ a.result = 0 THEN a.st
    ELSE NeRunEvaluated(tokens, i, source, a,
                        eval(a.st.heap, infos, a.st.outResult, in.evalCb), infos, bld, in)

\* Mutant: the result of the last token is not handed back.
NeRunLoop_nil(tokens, i, source, st, infos, bld, in) ==
    IF i > Len(tokens) THEN [st EXCEPT !.ret = 1, !.outResult = NeMakeNil]
    ELSE NeRunRead(tokens, i, source, nextAtom(tokens[i], source, st, infos, bld, in),
                   infos, bld, in)

NeRunLoop(tokens, i, source, st, infos, bld, in) ==
    IF i > Len(tokens) THEN [st EXCEPT !.ret = 1]
    ELSE NeRunRead(tokens, i, source, nextAtom(tokens[i], source, st, infos, bld, in),
                   infos, bld, in)

\* NeRun in the VM env = [heap, gcObjs, scratch, infos, bld, fn, serial], with
\* in = [failAt, r, junk, overlap, evalCb] what the memory callback and the
\* undefined operations do.  The result tells what NeRun returned (ret,
\* outResult), the state it left, the messages given to the output callback (log),
\* the lexemes when the scan succeeded (tokens), the lexemes lexBuild was given
\* whatever the scan came to (built), and whether a signed overflow occurred.
\* A run whose token arena could not be allocated works on an Arena that was
\* never initialised: it is undefined.
\* What NeRun gives when lex has failed: nothing is changed but the scratch arena.
NeRunFailed(env) ==
    [ret |-> 0, outResult |-> NeMakeNil, heap |-> env.heap, gcObjs |-> env.gcObjs,
     scratch |-> env.scratch, log |-> <<>>, serial |-> env.serial, made |-> <<>>,
     called |-> <<>>, read |-> 0, lexed |-> FALSE, tokens |-> <<>>, built |-> <<>>,
     allocs |-> 1, clash |-> FALSE, grew |-> FALSE, overflow |-> FALSE,
     crashed |-> FALSE, undefined |-> FALSE, kept |-> FALSE, outside |-> <<>>]

\* The lexemes in a token arena.
Tokens(info) ==
    [i \in 1..(info.arena.cursor \div SizeofNeLexInfo) |->
        info.items[(i - 1) * SizeofNeLexInfo]]

\* The end of NeRun, run being what its loop came to: arenaDone is reached only
\* after the last token.
NeRunDone(failed, lx, tokens, run) ==
    [failed EXCEPT !.ret = run.ret, !.outResult = run.outResult,
                   !.heap = IF run.ret = 1 /\ ~run.crashed
                            THEN HeapFree(run.heap, lx.info.arena.start)
                            ELSE run.heap,
                   !.gcObjs = run.gcObjs, !.serial = run.serial,
                   !.made = run.made, !.called = run.called, !.read = run.read,
                   !.lexed = TRUE, !.tokens = tokens, !.built = tokens,
                   !.allocs = run.allocs,
                   !.grew = lx.info.arena.size # 4096,
                   !.overflow = lx.ub, !.crashed = run.crashed,
                   !.kept = ~(run.ret = 1 /\ ~run.crashed)]

\* Mutant: the tokens built before a lex error are read and evaluated.
NeRunTokens_partial(env, source, in, failed, lx, tokens) ==
    NeRunDone(failed, lx, tokens,
               NeRunLoop(tokens, 1, source,
                         [heap |-> HeapPut(env.heap, lx.info.arena.start,
                                           [kind |-> "arena"]),
                          gcObjs |-> env.gcObjs, allocs |-> 1, serial |-> env.serial,
                          made |-> <<>>, called |-> <<>>, outResult |-> NeMakeNil,
                          crashed |-> FALSE, ret |-> 0, read |-> 0],
                         env.infos, env.bld, in))

NeRunTokens(env, source, in, failed, lx, tokens) ==
    IF lx.ok = 0
    THEN [failed EXCEPT !.heap = IF lx.out.start = NULL THEN env.heap
                                 ELSE HeapPut(env.heap, lx.out.start, [kind |-> "arena"]),
                        !.kept = lx.out.start # NULL,
                        !.scratch = lx.S.arena, !.log = lx.S.log, !.built = tokens,
                        !.grew = lx.info.arena.size # 4096
                                    \/ lx.S.arena.size # env.scratch.size,
                        !.crashed = lx.S.crashed, !.clash = lx.clash,
                        !.overflow = lx.ub]
    ELSE NeRunDone(failed, lx, tokens,
                   NeRunLoop(tokens, 1, source,
                             [heap |-> HeapPut(env.heap, lx.info.arena.start,
                                               [kind |-> "arena"]),
                              gcObjs |-> env.gcObjs, allocs |-> 1, serial |-> env.serial,
                              made |-> <<>>, called |-> <<>>, outResult |-> NeMakeNil,
                              crashed |-> FALSE, ret |-> 0, read |-> 0],
                             env.infos, env.bld, in))

\* A scan that read outside gNameChar is undefined from there on.
NeRunLexed(env, source, in, failed, lx) ==
    IF lx.outside # <<>>
    THEN [failed EXCEPT !.crashed = TRUE, !.undefined = TRUE, !.outside = lx.outside,
                        !.heap = HeapPut(env.heap, lx.info.arena.start, [kind |-> "arena"]),
                        !.kept = TRUE]
    ELSE NeRunTokens(env, source, in, failed, lx, Tokens(lx.info))

NeRunIn(env, origin, source, in, failed, buffer) ==
    IF buffer = NULL THEN [failed EXCEPT !.crashed = TRUE, !.undefined = TRUE]
    ELSE NeRunLexed(env, source, in, failed,
                    lex(env.fn, [arena |-> env.scratch, crashed |-> FALSE, log |-> <<>>],
                        origin, source, buffer, in.r, in.overlap))

NeRun(env, origin, source, in) ==
    NeRunIn(env, origin, source, in, NeRunFailed(env),
            NeAllocPlanned(env.heap, 1, in.failAt))

(***************************************************************************)
(* Arena operations as steps, applied in any order to one arena.           *)
(***************************************************************************)
InitialSizes == {4096, 768}
AllocSizes == {1, 16, 766, 4094, 9000}
FormatTexts == {TextNil, TextQuote}

NoOp == [op |-> "none", n |-> 0, text |-> <<>>, sizeBefore |-> 0, cursorBefore |-> 0,
         sizeAfter |-> 0, cursorAfter |-> 0, startAfter |-> 0, p |-> NULL,
         startBefore |-> 0, requests |-> <<>>]
NoRun == [c0 |-> 0, start0 |-> 0, pushes |-> 0, pops |-> 0, failed |-> FALSE]

OpRecord(op, n, text, before, res) ==
    [op |-> op, n |-> n, text |-> text, sizeBefore |-> before.size, cursorBefore |-> before.cursor,
     sizeAfter |-> res.arena.size, cursorAfter |-> res.arena.cursor,
     startAfter |-> res.arena.start, p |-> res.p, startBefore |-> before.start,
     requests |-> IF op = "format" THEN arenaFormatVRequests(before, n)
                  ELSE arenaAllocRequests(before, n)]

NoString == [value |-> NeMakeNil, mode |-> "NSM_Normal", valid |-> FALSE, text |-> <<>>,
             isString |-> FALSE, raw |-> <<>>, p |-> NULL, moved |-> FALSE,
             failed |-> FALSE]

\* callback tells what the create callback of the type did: "none" when it was
\* not invoked, else "succeeded", "failed" or "crashed".
NoCreate ==
    [type |-> 0, serial |-> 0, newObj |-> NULL, callback |-> "none", hasDelete |-> FALSE,
     ret |-> NULL, heapBefore |-> <<>>, heapAfter |-> <<>>, gcObjsBefore |-> NULL,
     gcObjsAfter |-> NULL, called |-> <<>>]

NoEval == [a |-> NeMakeNil, cb |-> [ret |-> 0, result |-> NeMakeNil], hasEvalFn |-> FALSE,
           ret |-> 0, result |-> NeMakeNil, crashed |-> FALSE]

\* Where the memory callback put the arena of the object types.
RegistryAddresses == {131072}

NoLastRun ==
    [source |-> <<>>, origin |-> <<>>, failAt |-> 0, ret |-> 0, outResult |-> NeMakeNil,
     lexed |-> FALSE, tokens |-> <<>>, built |-> <<>>, log |-> <<>>, read |-> 0,
     overflow |-> FALSE, undefined |-> FALSE, returned |-> FALSE, made |-> 0,
     kept |-> FALSE, allocs |-> 0, clash |-> FALSE, outside |-> <<>>, clean |-> TRUE]

\* The state NeOpen leaves, but for the scratch arena.
Opened(outputFuncs) ==
    /\ vm = "open"
    /\ outputFunc \in outputFuncs
    /\ outLog = <<>>
    /\ runs = 0
    /\ lastRun = NoLastRun
    /\ evals = 0
    /\ closeLog = <<>>
    /\ lastEval = NoEval
    /\ build \in {"Debug", "Release"}
    /\ \E b \in RegistryAddresses :
          objectInfo = registerStringType(arenaInit(b, SizeofObjectInfo * 16))
    /\ registered = <<>>
    /\ lastCreate = NoCreate
    /\ gcObjs = NULL
    /\ heap = <<>>
    /\ serial = 0
    /\ created = <<>>
    /\ deleteLog = <<>>
    /\ lastString = NoString
    /\ prints = 0
    /\ steps = 0
    /\ pushRun = NoRun
    /\ prevOp = NoOp
    /\ lastOp = NoOp

ArenaInitial ==
    /\ Opened({FALSE})
    /\ \E b \in Addresses, s \in InitialSizes : scratch = arenaInit(b, s)

ArenaAllocStep ==
    /\ vm = "open" /\ steps < MaxSteps
    /\ \E n \in AllocSizes, r \in MemResults :
         LET res == arenaAlloc(scratch, n, r)
         IN  /\ scratch' = res.arena
             /\ lastOp' = OpRecord("alloc", n, <<>>, scratch, res)
    /\ prevOp' = lastOp
    /\ pushRun' = NoRun
    /\ steps' = steps + 1
    /\ UNCHANGED <<vm, build, gcVars, lastString, prints, runVars>>

ArenaFormatStep ==
    /\ vm = "open" /\ steps < MaxSteps
    /\ \E text \in FormatTexts, r \in MemResults :
         LET res == arenaFormatV(scratch, text, r)
         IN  /\ scratch' = res.arena
             /\ lastOp' = OpRecord("format", Len(text), text, scratch, res)
    /\ prevOp' = lastOp
    /\ pushRun' = NoRun
    /\ steps' = steps + 1
    /\ UNCHANGED <<vm, build, gcVars, lastString, prints, runVars>>

ArenaPushStep ==
    /\ vm = "open" /\ steps < MaxSteps
    /\ \E r1 \in MemResults, r2 \in MemResults :
         LET res == arenaPush(scratch, r1, r2)
             aligned == arenaAlign(scratch, r1)
             padFailed == (scratch.start + scratch.cursor) % 16 # 0
                          /\ aligned.cursor = scratch.cursor
         IN  /\ scratch' = res.arena
             /\ vm' = IF res.p = NULL THEN "crashed" ELSE vm
             /\ pushRun' =
                  IF pushRun.pushes > 0 /\ pushRun.pops = 0
                  THEN [pushRun EXCEPT !.pushes = @ + 1, !.failed = @ \/ padFailed]
                  ELSE [c0 |-> scratch.cursor, start0 |-> scratch.start,
                        pushes |-> 1, pops |-> 0, failed |-> padFailed]
    /\ prevOp' = NoOp
    /\ lastOp' = NoOp
    /\ steps' = steps + 1
    /\ UNCHANGED <<build, gcVars, lastString, prints, runVars>>

ArenaPopStep ==
    /\ vm = "open" /\ steps < MaxSteps
    /\ scratch.restore # -1
    /\ scratch' = arenaPop(scratch)
    /\ pushRun' = IF pushRun.pushes > 0 /\ pushRun.pops < pushRun.pushes
                  THEN [pushRun EXCEPT !.pops = @ + 1]
                  ELSE NoRun
    /\ prevOp' = NoOp
    /\ lastOp' = NoOp
    /\ steps' = steps + 1
    /\ UNCHANGED <<vm, build, gcVars, lastString, prints, runVars>>

ArenaNext ==
    \/ ArenaAllocStep
    \/ ArenaFormatStep
    \/ ArenaPushStep
    \/ ArenaPopStep

SpecArena == ArenaInitial /\ [][ArenaNext]_vars

(***************************************************************************)
(* The VM between NeOpen and NeClose: registering types, creating objects, *)
(* printing values, closing.                                               *)
(***************************************************************************)
UserInfos ==
    { [name |-> <<"u", "s", "e", "r">>, createFn |-> "userCreate",
       deleteFn |-> "userDelete", evalFn |-> "null", toStringFn |-> "null", size |-> 8],
      [name |-> <<>>, createFn |-> "null", deleteFn |-> "null", evalFn |-> "null",
       toStringFn |-> "null", size |-> 8] }

\* The raw spans strings are created from: the texts of at most MaxRawLen bytes
\* over a, n, backslash and double quote.
RawAlphabet == {ChLowerA, ChLowerN, Backslash}
RawSpans == UNION {[1..n -> RawAlphabet] : n \in 0..MaxRawLen}
JunkBytes == {0, ChLowerA}
StringModes == {"NSM_Normal", "NSM_REPL", "NSM_Code"}

Init ==
    /\ Opened({FALSE})
    /\ \E b \in Addresses : scratch = arenaInit(b, 4096)

\* NeObjectRegister called with any of the records `infos`, while fewer than
\* `limit` types are registered.
NeObjectRegisterOf(infos, limit) ==
    /\ vm = "open" /\ NumTypes(objectInfo) < limit
    /\ \E info \in infos,
          r \in IF arenaSpace(objectInfo.arena) < SizeofObjectInfo THEN MemResults
                ELSE {NULL} :
         LET res == NeObjectRegister(objectInfo, info, r)
         IN  /\ objectInfo' = res.infos
             /\ vm' = IF res.crashed THEN "crashed" ELSE vm
             /\ registered' = IF res.crashed THEN registered
                              ELSE Append(registered, [id |-> res.type, info |-> info])
    /\ UNCHANGED <<build, scratch, gcObjs, heap, serial, created, deleteLog, lastCreate,
                   lastString, prints, arenaObs, runVars>>

NeObjectRegisterStep == NeObjectRegisterOf(UserInfos, MaxTypes)

\* The outcomes of what a create callback does, for the type `info`: the data the
\* embedder passes, and for stringCreate the buffer the memory callback returns
\* and the uninitialised bytes (which show only when the two passes disagree).
CreateOutcomes(info, spans, newObj) ==
    IF newObj = NULL \/ info.createFn = "null"
    THEN {[data |-> <<>>, rStr |-> NULL, junk |-> 0, userOk |-> TRUE]}
    ELSE IF info.createFn = "stringCreate"
    THEN {[data |-> d, rStr |-> a, junk |-> j, userOk |-> TRUE] :
             d \in spans, a \in NewBlocks(HeapPut(heap, newObj, <<>>)),
             j \in JunkBytes}
    ELSE {[data |-> <<>>, rStr |-> NULL, junk |-> 0, userOk |-> b] : b \in BOOLEAN}

\* NeObjectCreate called with any registered type out of `types`; a string is
\* created from any of `spans`.
NeObjectCreateStep(types, spans, limit) ==
    /\ vm = "open" /\ serial < limit
    /\ \E type \in types \cap (0..(NumTypes(objectInfo) - 1)), newObj \in NewBlocks(heap) :
         \E o \in CreateOutcomes(ObjectInfoAt(objectInfo, type), spans, newObj) :
           LET res == NeObjectCreate(heap, gcObjs, objectInfo, type, o.data, newObj,
                                     [rStr |-> o.rStr, junk |-> o.junk, userOk |-> o.userOk,
                                      serial |-> serial + 1], build)
           IN  /\ heap' = res.heap
               /\ gcObjs' = res.gcObjs
               /\ vm' = IF res.crashed THEN "crashed" ELSE vm
               /\ deleteLog' = deleteLog \o res.called
               /\ created' = IF res.ret # NULL
                             THEN Append(created,
                                         [serial |-> serial + 1, type |-> type,
                                          hasDelete |->
                                              ObjectInfoAt(objectInfo, type).deleteFn
                                                  # "null"])
                             ELSE created
               /\ lastCreate' =
                    [type |-> type, serial |-> serial + 1, newObj |-> newObj,
                     hasDelete |-> ObjectInfoAt(objectInfo, type).deleteFn # "null",
                     heapAfter |-> res.heap, gcObjsAfter |-> res.gcObjs,
                     callback |->
                         IF newObj = NULL \/ ObjectInfoAt(objectInfo, type).createFn = "null"
                         THEN "none"
                         ELSE IF res.crashed THEN "crashed"
                         ELSE IF res.ret = NULL THEN "failed" ELSE "succeeded",
                     ret |-> res.ret, heapBefore |-> heap, gcObjsBefore |-> gcObjs,
                     called |-> res.called]
    /\ serial' = serial + 1
    /\ UNCHANGED <<build, scratch, objectInfo, registered, lastString, prints, arenaObs,
                   runVars>>

\* The values NeToString is applied to: Nil, the Booleans and the live objects.
Printable ==
    {NeMakeNil, NeMakeBool(0), NeMakeBool(1)}
        \cup {NeMakeObject(a + SizeofGcObj) : a \in {x \in DOMAIN heap : heap[x].kind = "obj"}}

\* What the embedder has of a NeToString call that gave res: the pointer, and
\* the string str it reads there.  An allocation that the call needed has
\* failed when the memory callback returned NULL and the arena is not the one
\* the same call makes when the callback succeeds.
NeToStringReturns(value, mode, r, res, str) ==
    /\ scratch' = res.arena
    /\ vm' = IF res.crashed THEN "crashed" ELSE vm
    /\ lastString' = [value |-> value, mode |-> mode,
                      valid |-> ~res.crashed /\ str.valid, text |-> str.text,
                      isString |-> value.type = "AT_Object" /\ heap[value.v].type = 0,
                      raw |-> IF value.type = "AT_Object" THEN heap[value.v].raw
                              ELSE <<>>,
                      p |-> res.p,
                      moved |-> res.arena.start # scratch.start,
                      failed |-> r = NULL
                                    /\ NeToString(scratch, heap, objectInfo, value, mode,
                                                  scratch.start).arena.size # scratch.size]

NeToStringCalled(value, mode, r, res) ==
    NeToStringReturns(value, mode, r, res, CString(res.arena, res.p))

\* NeToString called with any of the values.
NeToStringOf(values) ==
    /\ vm = "open" /\ prints < MaxPrints
    /\ prints' = prints + 1
    /\ \E value \in values, mode \in StringModes, r \in MemResults :
         NeToStringCalled(value, mode, r,
                          NeToString(scratch, heap, objectInfo, value, mode, r))
    /\ UNCHANGED <<build, gcVars, arenaObs, runVars>>

NeToStringStep == NeToStringOf(Printable)

NeCloseStep ==
    /\ vm = "open"
    /\ LET res == NeCloseLoop(heap, gcObjs, objectInfo, <<>>)
       IN  /\ heap' = res.heap
           /\ deleteLog' = deleteLog \o res.called
           /\ closeLog' = res.freed
                             \o <<IF scratch.start # NULL THEN "scratch" ELSE "freed",
                                  IF objectInfo.arena.start # NULL THEN "objectInfo"
                                  ELSE "freed",
                                  "vm">>
    /\ gcObjs' = NULL
    /\ scratch' = arenaDone(scratch)
    /\ vm' = "closed"
    /\ objectInfo' = [arena |-> arenaDone(objectInfo.arena), items |-> <<>>]
    /\ UNCHANGED <<build, serial, created, registered, lastCreate, lastString, prints,
                   arenaObs, outputFunc, outLog, runs, lastRun, evals, lastEval>>

\* The raw spans of the strings created by the embedder in Spec.
LifecycleSpans == {<<>>, Bytes(<<"a", "\\", "n">>), Bytes(<<"\\", "\\", "\\">>)}

Next ==
    \/ NeObjectRegisterStep
    \/ NeObjectCreateStep(0..(MaxTypes - 1), LifecycleSpans, MaxCreates)
    \/ NeCloseStep

Spec == Init /\ [][Next]_vars

(***************************************************************************)
(* One string made by NeMakeStringRanged from any raw span, then printed.  *)
(***************************************************************************)
MaxStrings == 1

StringNext ==
    \/ NeObjectCreateStep({0}, RawSpans, MaxStrings)
    \/ NeToStringStep

SpecString == Init /\ [][StringNext]_vars

(***************************************************************************)
(* Values of every type printed by NeToString: Nil, the Booleans, integers,*)
(* every character, strings, and objects of a type without a toString      *)
(* callback whose name is as long as the scratch arena.                    *)
(***************************************************************************)
LongName == [i \in 1..4096 |-> "a"]

PrintInfos ==
    { [name |-> LongName, createFn |-> "null", deleteFn |-> "null", evalFn |-> "null",
       toStringFn |-> "null", size |-> 8],
      [name |-> <<>>, createFn |-> "null", deleteFn |-> "null", evalFn |-> "null",
       toStringFn |-> "null", size |-> 8] }

PrintSpans == {Bytes(<<"a", "\\", "n">>)}

IntValues ==
    {WInt(0), WInt(7), WInt(42), WInt(-1), WInt(-42), WInt(1234567), WInt(-10000000),
     WInt(2147483647), I64Max, I64Min, WAdd(I64Min, WInt(1))}

IntAtoms == {NeMakeInt(i) : i \in IntValues}
CharAtoms == {NeMakeChar(c) : c \in 0..255}

PrintNext ==
    \/ NeObjectRegisterOf(PrintInfos, 2)
    \/ NeObjectCreateStep({0, 1}, PrintSpans, MaxStrings)
    \/ NeToStringOf(Printable)
    \/ NeToStringOf(IntAtoms)
    \/ NeToStringOf(CharAtoms)

SpecPrint == Init /\ [][PrintNext]_vars

(***************************************************************************)
(* NeRun as a step, on the sources below.                                  *)
(***************************************************************************)
MaxRuns == 1
MaxFailAt == 3

Digits(ds) == [i \in 1..Len(ds) |-> ChZero + ds[i]]

\* Runs of decimal digits: short ones, and the ones about 2^63.
DigitRuns ==
    { Digits(<<0>>), Digits(<<7>>), Digits(<<4, 2>>), Digits(<<0, 0, 7>>),
      Digits(<<9, 2, 2, 3, 3, 7, 2, 0, 3, 6, 8, 5, 4, 7, 7, 5, 8, 0, 6>>),
      Digits(<<9, 2, 2, 3, 3, 7, 2, 0, 3, 6, 8, 5, 4, 7, 7, 5, 8, 0, 7>>),
      Digits(<<9, 2, 2, 3, 3, 7, 2, 0, 3, 6, 8, 5, 4, 7, 7, 5, 8, 0, 8>>),
      Digits(<<0, 9, 2, 2, 3, 3, 7, 2, 0, 3, 6, 8, 5, 4, 7, 7, 5, 8, 0, 7>>),
      Digits(<<9, 2, 2, 3, 3, 7, 2, 0, 3, 6, 8, 5, 4, 7, 7, 5, 8, 0, 7, 0>>) }
Signs == {<<>>, <<ChPlus>>, <<ChMinus>>}
NumberSources == {s \o d : s \in Signs, d \in DigitRuns}

\* A sign that no digit follows.
SignSources ==
    { Bytes(<<"-">>), Bytes(<<"+">>), Bytes(<<"-", "a">>), Bytes(<<"+", "x", "1">>),
      Bytes(<<"-", " ", "7">>), Bytes(<<"+", ")">>), Bytes(<<"-", "-", "7">>),
      Bytes(<<"-", "\n">>), Bytes(<<"+", "\n", "7">>), Bytes(<<"-", "\r", "\n", " ", "7">>) }

\* Names: the keywords and names that are near them.
WordSources ==
    { Bytes(<<"n", "i", "l">>), Bytes(<<"y", "e", "s">>), Bytes(<<"n", "o">>),
      Bytes(<<"n", "i", "l", "e">>), Bytes(<<"y", "e">>), Bytes(<<"o", "n">>),
      Bytes(<<"N", "o">>), Bytes(<<"n", "o", "7">>), Bytes(<<"|">>) }

\* Character literals written in hexadecimal: backslash, #, x and one or two of
\* the digits HexDigits, then a terminator or the end of the source.
HexDigits == {Ord("0"), Ord("1"), Ord("4"), Ord("9"), Ord("a"), Ord("f"), Ord("A"), Ord("F")}
HexRuns == {<<a>> : a \in HexDigits} \cup {<<a, b>> : a \in HexDigits, b \in HexDigits}
Terminators == {<<>>, <<ChSpace>>, <<Ord(")")>>}
HexCharSources == {<<Backslash, ChHash, ChLowerX>> \o h \o t : h \in HexRuns, t \in Terminators}

\* The names of characters, and runs of lowercase letters that are none.
CharNames ==
    { Bytes(<<"s", "p", "a", "c", "e">>), Bytes(<<"b", "a", "c", "k", "s", "p", "a", "c", "e">>),
      Bytes(<<"t", "a", "b">>), Bytes(<<"n", "e", "w", "l", "i", "n", "e">>), Bytes(<<"r", "e", "t", "u", "r", "n">>),
      Bytes(<<"b", "e", "l", "l">>), Bytes(<<"e", "s", "c">>) }
UnknownCharNames ==
    { Bytes(<<"s", "p", "a", "d", "e">>), Bytes(<<"s", "p", "a", "c">>), Bytes(<<"s", "p", "a", "c", "e", "s">>), Bytes(<<"t", "a", "b", "s">>),
      Bytes(<<"t", "a">>), Bytes(<<"b", "e", "l">>), Bytes(<<"b", "e", "l", "l", "s">>), Bytes(<<"e", "s", "c", "c">>),
      Bytes(<<"e", "s">>), Bytes(<<"n", "e", "w", "l", "i", "n">>), Bytes(<<"r", "e", "t", "u", "r", "n", "s">>), Bytes(<<"b", "a", "c", "k", "s", "p", "a", "c">>),
      Bytes(<<"n", "i", "l">>), Bytes(<<"z", "z">>), Bytes(<<"s", "p">>), Bytes(<<"d", "e", "l">>) }
        \cup {<<a, b>> : a \in {ChLowerA, ChLowerZ, Ord("t")}, b \in {ChLowerA, ChLowerZ, Ord("b")}}
NameTerminators == Terminators \cup {<<ChNewline>>, <<ChColon>>, <<ChTab>>, <<Ord("]")>>}
NamedCharSources ==
    {<<Backslash>> \o name \o t : name \in CharNames \cup UnknownCharNames,
                                  t \in NameTerminators}

\* Other character literals.
CharSources ==
    { Bytes(<<"\\", "a">>), Bytes(<<"\\", "s", "p", "a", "c", "e">>),
      Bytes(<<"\\", "s", "p", "a", "d", "e">>), Bytes(<<"\\", "#">>),
      Bytes(<<"\\", "#", "6", "5">>), Bytes(<<"\\", "#", "a", " ">>),
      Bytes(<<"\\", "#", "x", "4", "1", "4">>), Bytes(<<"\\", "#", "x", "g">>),
      Bytes(<<"\\">>) }

\* String literals, closed and not.
StringSources ==
    { Bytes(<<"\"", "a", "b", "\"">>), Bytes(<<"\"", "\"">>),
      Bytes(<<"\"", "a", "\\", "n", "\"">>), Bytes(<<"\"", "\\", "\\", "\\", "n", "\"">>),
      Bytes(<<"\"", "a", "b">>), Bytes(<<"\"">>), Bytes(<<"\"", "a", "\n">>),
      Bytes(<<"\"", "a", "\n", "\"">>), Bytes(<<"\"", "a", "\r", "\n", "b", "\"">>),
      Bytes(<<"\"", "a", "\\", "\"">>) }

\* String literals with an escaped double quote inside.
EscapedQuoteSources ==
    { Bytes(<<"\"", "a", "\\", "\"", "\"">>), Bytes(<<"\"", "\\", "\"", "\"">>),
      Bytes(<<"\"", "a", "\\", "\"", "b", "\"">>),
      Bytes(<<"\"", "\\", "\\", "\"">>) }

\* Line comments: from ; or from # and white space, without the line end; the
\* line ends; what precedes a comment on its line and what follows on the next.
LineComments ==
    { Bytes(<<";">>), Bytes(<<";", " ", "c">>), Bytes(<<";", ";", "\"", "x">>),
      Bytes(<<";", "#", "|">>), Bytes(<<"#", " ", "c">>), Bytes(<<"#", "\t", "y", "e", "s">>),
      Bytes(<<"#", " ", "|", "#">>), Bytes(<<"#", " ", " ", "7", ";">>) }
LineEndings == {<<ChNewline>>, <<ChReturn>>, <<ChReturn, ChNewline>>}
BeforeComments == {<<>>, Bytes(<<"7">>), Bytes(<<"\"", "a", "\"", " ">>)}
AfterComments ==
    { <<>>, Bytes(<<"4", "2">>), Bytes(<<"y", "e", "s", "\n", "\"", "a", "\"">>),
      Bytes(<<"\\", "a", " ", "7">>), Bytes(<<"\"", "a">>), Bytes(<<"n", "o", " ", "x">>) }
LineCommentSources ==
    {b \o c \o e \o a : b \in BeforeComments, c \in LineComments, e \in LineEndings,
                        a \in AfterComments}
        \cup {b \o c : b \in BeforeComments, c \in LineComments}

\* Block comments: from #| to the |# that brings the depth back to 0.
BlockComments ==
    { Bytes(<<"#", "|", "|", "#">>), Bytes(<<"#", "|", " ", "a", " ", "|", "#">>),
      Bytes(<<"#", "|", "#", "|", "|", "#", "|", "#">>),
      Bytes(<<"#", "|", "a", "\n", "#", "|", " ", "b", "|", "#", "c", " ", "|", "#">>) }

\* What follows a block comment, or a line comment, or white space.
Rests ==
    { <<>>, Bytes(<<"4", "2">>), Bytes(<<" ", "4", "2">>), Bytes(<<"\n", "4", "2">>),
      Bytes(<<"\t", "y", "e", "s">>), Bytes(<<"y", "e", "s">>), Bytes(<<"|", " ", "7">>),
      Bytes(<<"|", "#", "7">>), Bytes(<<"\"", "a", "\"">>), Bytes(<<" ", "\"", "a">>),
      Bytes(<<"\\", "a">>), Bytes(<<"#", "|", "|", "#", "7">>), Bytes(<<";", "7", "\n", "n", "o">>) }

Leads ==
    { <<ChSpace>>, <<ChNewline>>, Bytes(<<";", " ", "c", "\n">>), Bytes(<<"#", " ", "c", "\r">>),
      Bytes(<<"7", " ">>), Bytes(<<"\"", "s", "\"", "\n">>), Bytes(<<"#">>) }
Follows ==
    { Bytes(<<"n", "i", "l">>), Bytes(<<"y", "e", "s">>), Bytes(<<"-", "4", "2">>),
      Bytes(<<"\"", "a", "b">>), Bytes(<<"\"", "a", "\n">>), Bytes(<<"\"", "a", "b", "\"">>),
      Bytes(<<"\\", "#", "x", "4", "1">>), Bytes(<<"x">>) }

\* Names of one to three bytes, among them the keywords and names that fall in
\* the hash bucket of a keyword with its length (ab with no, nad with nil).
NameFirsts == {Ord("n"), Ord("y"), Ord("a"), Ord("e"), Ord("o")}
NameChars ==
    {Ord("n"), Ord("i"), Ord("l"), Ord("y"), Ord("e"), Ord("s"), Ord("o"), Ord("a"),
     Ord("b"), Ord("d"), Ord("7")}
NameSources ==
    {<<a>> : a \in NameFirsts} \cup {<<a, b>> : a \in NameFirsts, b \in NameChars}
        \cup {<<a, b, c>> : a \in NameFirsts, b \in NameChars, c \in NameChars}

\* Sources with a token that nextAtom does not read, and tokens after it.
FailingSources ==
    { Bytes(<<"y", "e", "s", " ", "n", "i", "l", " ", "\"", "a", "b", "\"">>),
      Bytes(<<"n", "i", "l", " ", "7">>),
      Bytes(<<"\"", "s", "\"", " ", "n", "i", "l", " ", "\"", "t", "\"">>),
      Bytes(<<"\\", "a", " ", "n", "i", "l", " ", "n", "o">>) }

\* Sources with a byte of 0x80 or more: alone, in a name, after white space, in a
\* string, in a comment, as a character.
HighBytes == {128, 200, 255}
HighByteSources ==
    UNION {{<<b>>, <<ChLowerA, b>>, <<ChSpace, b>>, <<ChQuote, b, ChQuote>>,
            <<ChSemicolon, b>>, <<Backslash, b>>} : b \in HighBytes}

Sources ==
    {<<>>} \cup HighByteSources \cup SignSources \cup LineCommentSources \cup FailingSources \cup NameSources \cup NumberSources \cup WordSources \cup HexCharSources \cup NamedCharSources \cup CharSources
        \cup StringSources \cup EscapedQuoteSources \cup {c \o rest : c \in BlockComments, rest \in Rests}
        \cup {lead \o f : lead \in Leads, f \in Follows}

Origins == {Bytes(<<"t", ".", "n">>)}

InitRun ==
    /\ Opened(BOOLEAN)
    /\ \E b \in Addresses : scratch = arenaInit(b, 4096)

RunEnv ==
    [heap |-> heap, gcObjs |-> gcObjs, scratch |-> scratch, infos |-> objectInfo,
     bld |-> build, fn |-> outputFunc, serial |-> serial]

\* No type with an evaluate callback is registered in these runs.
NoEvalCallback == [ret |-> 1, result |-> NeMakeNil]

\* The run in which every allocation succeeds.
ProbeInputs ==
    [failAt |-> 0, r |-> 65536, junk |-> 0, overlap |-> "copied", evalCb |-> NoEvalCallback]

\* A String token whose two passes of stringCreate disagree.
Mismatched(source, t) ==
    LET raw == SubSeq(source, t.start + 1, t.end)
    IN  t.token = NeToken_String
            /\ stringCreateLen(raw, 1, 0) # Len(stringCreateFill(raw, 1, <<>>))

\* What the memory callback and the undefined operations may do in a run of the
\* source, probe being the run in which every allocation succeeds: each of the
\* allocations may fail, a growing arena may move, and the bytes stringCreate
\* leaves unwritten and the overlapping vsnprintf may come out either way.
RunInputs(source, probe) ==
    {[failAt |-> f, r |-> a, junk |-> j, overlap |-> o, evalCb |-> NoEvalCallback] :
        f \in 0..(IF probe.allocs < MaxFailAt THEN probe.allocs ELSE MaxFailAt),
        a \in IF probe.grew THEN MemResults ELSE {NULL},
        j \in IF \E i \in 1..Len(probe.tokens) : Mismatched(source, probe.tokens[i])
              THEN JunkBytes ELSE {0},
        o \in IF probe.clash THEN OverlapOutcomes ELSE {"copied"}}

\* What a run on an Arena that was never initialised may come to.
UndefinedOutcomes == {"crash", "return 0", "return 1"}

\* NeRun on any of the sources.  A signed overflow is undefined: the run goes on
\* with the wrapped value, or it traps.
NeRunReturns(source, origin, in, res, u, died) ==
    /\ vm' = IF died THEN "crashed" ELSE vm
    /\ heap' = res.heap
    /\ gcObjs' = res.gcObjs
    /\ scratch' = res.scratch
    /\ serial' = res.serial
    /\ created' = created \o res.made
    /\ deleteLog' = deleteLog \o res.called
    /\ outLog' = outLog \o res.log
    /\ lastRun' = [source |-> source, origin |-> origin, failAt |-> in.failAt,
                   ret |-> IF u = "return 1" THEN 1 ELSE res.ret,
                   outResult |-> res.outResult, lexed |-> res.lexed,
                   tokens |-> res.tokens, built |-> res.built,
                   log |-> res.log, read |-> res.read, overflow |-> res.overflow,
                   undefined |-> res.undefined, returned |-> ~died,
                   made |-> Len(res.made), kept |-> res.kept,
                   allocs |-> res.allocs, clash |-> res.clash, outside |-> res.outside,
                   clean |-> lastRun.clean /\ res.ret = 1 /\ ~res.undefined]

NeRunOutcome(source, origin, in, trap, res) ==
    \E u \in IF res.undefined THEN UndefinedOutcomes ELSE {"crash"} :
        NeRunReturns(source, origin, in, res, u, trap \/ (res.crashed /\ u = "crash"))

NeRunProbed(source, origin, probe) ==
    \E in \in RunInputs(source, probe),
       trap \in IF probe.overflow THEN BOOLEAN ELSE {FALSE} :
        NeRunOutcome(source, origin, in, trap, NeRun(RunEnv, origin, source, in))

\* NeRun called on any of the sources.
NeRunOf(sources) ==
    /\ vm = "open" /\ runs < MaxRuns
    /\ \E source \in sources, origin \in Origins :
         NeRunProbed(source, origin, NeRun(RunEnv, origin, source, ProbeInputs))
    /\ runs' = runs + 1
    /\ UNCHANGED <<build, objectInfo, registered, lastCreate, lastString, prints,
                   outputFunc, evals, lastEval, closeLog, arenaObs>>

NeRunStep == NeRunOf(Sources)

RunNext == NeRunStep

SpecRun == InitRun /\ [][RunNext]_vars

(***************************************************************************)
(* Registrations alone, more of them than the arena NeOpen makes for the   *)
(* records holds (16, the string type among them).                         *)
(***************************************************************************)
MaxRegistered == 18

RegistryNext == NeObjectRegisterOf(UserInfos, MaxRegistered)

\* The build and the place of the scratch arena have no part in a registration.
InitRegistry == Init /\ build = "Release" /\ scratch.start = 65536

SpecRegistry == InitRegistry /\ [][RegistryNext]_vars

(***************************************************************************)
(* The VM between NeOpen and NeClose, with every call an embedder can      *)
(* make, in any order: NeObjectRegister, NeObjectCreate, NeRun, NeToString *)
(* and NeClose.                                                            *)
(***************************************************************************)
MaxVMCreates == 2

VMSources ==
    { Bytes(<<"y", "e", "s">>), Bytes(<<"n", "i", "l">>), Bytes(<<"\"", "a", "b", "\"">>),
      Bytes(<<"\"", "a", "\"", " ", "\"", "\\", "n", "\"">>),
      Bytes(<<"\"", "a", "\"", " ", "x">>), Bytes(<<"\"", "a", "\"", " ", "\"", "b">>) }

VMSpans == {Bytes(<<"a", "\\", "n">>)}

VMNext ==
    \/ NeObjectRegisterOf(UserInfos, 2)
    \/ NeObjectCreateStep({0, 1}, VMSpans, MaxVMCreates)
    \/ NeRunOf(VMSources)
    \/ NeToStringOf(Printable)
    \/ NeCloseStep

\* The VM as NeOpen leaves it, with or without an output callback.
InitVM ==
    /\ Opened(BOOLEAN)
    /\ scratch = arenaInit(65536, 4096)

SpecVM == InitVM /\ [][VMNext]_vars

(***************************************************************************)
(* eval applied to any value of a VM in which types with and without an    *)
(* evaluate callback are registered and objects of them exist.             *)
(***************************************************************************)
MaxEvals == 1
MaxEvalCreates == 1

EvalInfos ==
    { [name |-> <<"u", "s", "e", "r">>, createFn |-> "null", deleteFn |-> "null",
       evalFn |-> "userEval", toStringFn |-> "null", size |-> 8],
      [name |-> <<>>, createFn |-> "null", deleteFn |-> "null", evalFn |-> "null",
       toStringFn |-> "null", size |-> 8] }

\* What an evaluate callback may give: failure or success, and the value it
\* leaves in the output slot.
EvalCallbacks == {[ret |-> r, result |-> v] : r \in {0, 1}, v \in {NeMakeNil, NeMakeBool(1)}}

\* The evaluate callbacks a call may invoke: one is invoked only for an Object.
EvalCallbacksFor(a) == IF a.type = "AT_Object" THEN EvalCallbacks ELSE {NoEvalCallback}

evalReturns(a, cb, res) ==
    /\ vm' = IF res.crashed THEN "crashed" ELSE vm
    /\ lastEval' = [a |-> a, cb |-> cb,
                    hasEvalFn |-> /\ a.type = "AT_Object" /\ a.v \in DOMAIN heap
                                  /\ objectType(objectInfo, heap[a.v]).evalFn # "null",
                    ret |-> res.ret, result |-> res.result, crashed |-> res.crashed]

\* eval called with any of the values.
evalOf(values) ==
    /\ vm = "open" /\ evals < MaxEvals
    /\ evals' = evals + 1
    /\ \E a \in values : \E cb \in EvalCallbacksFor(a) :
          evalReturns(a, cb, eval(heap, objectInfo, a, cb))
    /\ UNCHANGED <<build, scratch, gcVars, lastString, prints, arenaObs, outputFunc,
                   outLog, runs, lastRun, closeLog>>

EvalNext ==
    \/ NeObjectRegisterOf(EvalInfos, 3)
    \/ NeObjectCreateStep({0, 1, 2}, VMSpans, MaxEvalCreates)
    \/ evalOf(Printable)
    \/ evalOf(IntAtoms)
    \/ evalOf(CharAtoms)

InitEval == Init /\ scratch.start = 65536

SpecEval == InitEval /\ [][EvalNext]_vars

(***************************************************************************)
(* Claims about the arena.                                                 *)
(***************************************************************************)
\* The padding arenaAlign adds at an address.
Pad16(address) == (16 - (address % 16)) % 16

RunDone == vm = "open" /\ pushRun.pushes >= 1 /\ pushRun.pops = pushRun.pushes

Grew(o) == o.op \in {"alloc", "format"} /\ o.n > o.sizeBefore - o.cursorBefore /\ o.p # NULL

\* The bytes an operation takes from the arena: arenaFormatV takes one more than the
\* text when it has to grow.
Taken(o) == IF o.op = "format" THEN o.n + 1 ELSE o.n

\* The n bytes asked for lie inside the grown buffer, and a formatted text is
\* stored whole.
GrownFits(o) ==
    /\ o.sizeAfter = o.sizeBefore + NE_MAX(o.sizeBefore + Taken(o), 4096)
    /\ o.p = o.startAfter + o.cursorBefore
    /\ o.cursorBefore + o.n <= o.sizeAfter
    /\ o.cursorAfter = o.cursorBefore + Taken(o)
    /\ o.cursorAfter <= o.sizeAfter

C26_FormatAdvancesByLength ==
    lastOp.op = "format" /\ lastOp.p # NULL =>
        /\ lastOp.cursorAfter = lastOp.cursorBefore + lastOp.n
        /\ \A k \in lastOp.cursorBefore..(lastOp.cursorAfter - 1) : scratch.mem[k] # 0

\* C28 as stated: every call to the memory callback that resizes a block passes
\* as the old size the size the block has; for the growth of an arena that is the
\* size of its buffer before the call.
C28_OldSizeIsBlockSize ==
    \A i \in 1..Len(lastOp.requests) :
        /\ lastOp.requests[i].address = lastOp.startBefore
        /\ lastOp.requests[i].oldBytes = lastOp.sizeBefore

\* C29: every scratch session the kernel starts is ended exactly once, so that
\* arenaPop always finds the restore point of its arenaPush: whenever NeToString,
\* NeOut or NeRun has returned, the scratch arena has no outstanding restore
\* point (restore = -1).
C29_SessionsAreBalanced ==
    vm = "open" => scratch.restore = -1

\* C29 witness: a NeRun that reported a lex error through the output callback (a
\* session for each of the three messages and one for errorMsg) and a NeToString
\* have both returned.
C29_Witness ==
    /\ vm = "open" /\ scratch.restore = -1
    /\ runs > 0 /\ lastRun.returned /\ ~lastRun.lexed /\ Len(lastRun.log) = 3
    /\ prints > 0 /\ lastString.valid

\* The restore offsets saved in the buffer, from r on, go strictly down to -1.
RECURSIVE RestoreChain(_, _)
RestoreChain(arena, r) ==
    \/ r = -1
    \/ /\ r >= 0 /\ r + 16 <= arena.size
       /\ MemReadI64(arena.mem, r + 8) < r
       /\ RestoreChain(arena, MemReadI64(arena.mem, r + 8))

\* The arena is well formed: the cursor lies in the buffer, and the restore point,
\* when there is one, lies before the cursor and heads a chain that goes strictly
\* down to -1.
ArenaWellFormed(arena) ==
    /\ 0 <= arena.cursor /\ arena.cursor <= arena.size
    /\ arena.restore # -1 => arena.restore < arena.cursor
    /\ RestoreChain(arena, arena.restore)

\* C36: in every state of an arena in use the arena is well formed, and the
\* cursor goes down only in arenaPop, which sets it to the latest restore point.
C36_ArenaInvariant ==
    /\ [](vm = "open" => ArenaWellFormed(scratch))
    /\ [][vm' = "open" /\ scratch'.cursor < scratch.cursor =>
            scratch.restore # -1 /\ scratch'.cursor = scratch.restore]_vars

\* C36 witness: after two arenaPush calls and one arenaPop the restore point of
\* the first is the latest again.
C36_Witness ==
    /\ vm = "open" /\ pushRun.pushes = 2 /\ pushRun.pops = 1
    /\ scratch.restore # -1 /\ scratch.restore < scratch.cursor
    /\ MemReadI64(scratch.mem, scratch.restore + 8) = -1

(***************************************************************************)
(* Claims about eval.                                                      *)
(***************************************************************************)
\* C33: eval of a Nil, Integer, Boolean or Character value gives success and the
\* same value; eval of an Object gives what the evaluate callback of its type
\* gives when the type has one, and else success and the same Object value.
C33_EvalGivesValueOrCallback ==
    evals > 0 /\ ~lastEval.crashed =>
        IF lastEval.hasEvalFn
        THEN lastEval.ret = lastEval.cb.ret /\ lastEval.result = lastEval.cb.result
        ELSE /\ lastEval.ret = 1
             /\ lastEval.result.type = lastEval.a.type
             /\ lastEval.result = lastEval.a

\* C33 witness: the evaluate callback of the type of an object has failed, and
\* eval has given its failure and the value it left.
C33_Witness ==
    /\ evals > 0 /\ ~lastEval.crashed
    /\ lastEval.a.type = "AT_Object" /\ lastEval.hasEvalFn
    /\ lastEval.cb.ret = 0 /\ lastEval.ret = 0
    /\ lastEval.result = NeMakeBool(1)

(***************************************************************************)
(* Claims about the life of objects.                                       *)
(***************************************************************************)
Reverse(seq) == [i \in 1..Len(seq) |-> seq[Len(seq) + 1 - i]]

HasDelete(c) == c.hasDelete

\* The objects successfully created whose type has a delete callback, in order of
\* creation.
CreatedWithDelete ==
    LET sel == SelectSeq(created, HasDelete)
    IN  [i \in 1..Len(sel) |-> sel[i].serial]

WasCreated(s) == \E i \in 1..Len(created) : created[i].serial = s

\* C1: after any sequence of successful NeObjectCreate calls followed by NeClose,
\* the delete callback of every created object has been invoked exactly once, and
\* the invocations occur in exact reverse order of creation.
C1_DeletedOnceInReverseOrder ==
    vm = "closed" => SelectSeq(deleteLog, WasCreated) = Reverse(CreatedWithDelete)

\* C1 witness: a closed VM in which a string and then an object of a registered
\* type with a delete callback had been created.
C1_Witness ==
    /\ vm = "closed" /\ Len(CreatedWithDelete) = 2 /\ Len(created) = 2
    /\ created[1].type = 0 /\ created[2].type # 0
    /\ Len(deleteLog) = 2

\* The GC list from head, as the serial numbers of its objects; an address that
\* is not the block of a live object shows as -1.
RECURSIVE GcListFrom(_, _, _)
GcListFrom(hp, head, fuel) ==
    IF head = NULL THEN <<>>
    ELSE IF fuel = 0 \/ head \notin DOMAIN hp THEN <<-1>>
    ELSE IF hp[head].kind # "obj" THEN <<-1>>
    ELSE <<hp[head].serial>> \o GcListFrom(hp, hp[head].next, fuel - 1)

GcList == GcListFrom(heap, gcObjs, Cardinality(DOMAIN heap))

CreatedSerials == [i \in 1..Len(created) |-> created[i].serial]

\* C13: between NeOpen and NeClose the GC list holds each successfully created
\* object exactly once, the most recently created first, and the delete callback
\* of none of them has been invoked, whatever calls of NeRun, NeToString and
\* NeObjectCreate were made.
C13_GcListIsCreatedReversed ==
    vm = "open" =>
        /\ GcList = Reverse(CreatedSerials)
        /\ \A i \in 1..Len(deleteLog) : ~WasCreated(deleteLog[i])

\* C13 witness: NeRun has made a string, NeObjectCreate an object after it and
\* NeToString has printed, and both objects are on the list.
C13_Witness ==
    /\ vm = "open" /\ runs > 0 /\ prints > 0
    /\ lastRun.ret = 1 /\ lastRun.outResult.type = "AT_Object"
    /\ lastCreate.ret # NULL
    /\ Len(created) = 2 /\ created[2].serial = lastCreate.serial
    /\ GcList = <<created[2].serial, created[1].serial>>

\* C12: when the create callback of a type returns failure, NeObjectCreate
\* invokes the delete callback of the type on the object, frees the block of the
\* object, returns null and leaves the GC list as it was before the call.
C12_FailedCreateIsTornDown ==
    lastCreate.callback = "failed" =>
        /\ lastCreate.ret = NULL
        /\ lastCreate.called = IF lastCreate.hasDelete THEN <<lastCreate.serial>> ELSE <<>>
        /\ lastCreate.newObj \notin DOMAIN lastCreate.heapAfter
        /\ lastCreate.heapAfter = lastCreate.heapBefore
        /\ lastCreate.gcObjsAfter = lastCreate.gcObjsBefore

\* C12 witness: the create callback of an embedder's type has failed while the
\* GC list held an object.
C12_Witness ==
    /\ lastCreate.callback = "failed" /\ lastCreate.type # 0
    /\ lastCreate.hasDelete
    /\ lastCreate.gcObjsBefore # NULL
    /\ gcObjs = lastCreate.gcObjsBefore
    /\ Len(deleteLog) = 1

\* The number of blocks of a kind among those NeClose released.
ReleasedOf(kind) == Cardinality({i \in 1..Len(closeLog) : closeLog[i] = kind})

\* C37: NeClose releases the blocks of every object that remains, then the scratch
\* arena and the arena of the object types, then the block of the VM; each block
\* it releases is one that has not been released before; and when every NeRun call
\* has succeeded (lastRun.clean) no block the memory callback gave remains.
C37_CloseReleasesEverythingInOrder ==
    vm = "closed" =>
        /\ Len(closeLog) >= 3
        /\ SubSeq(closeLog, Len(closeLog) - 2, Len(closeLog)) = <<"scratch", "objectInfo", "vm">>
        /\ \A i \in 1..(Len(closeLog) - 3) : closeLog[i] \in {"obj", "buf"}
        /\ ReleasedOf("obj") = Len(created)
        /\ \A a \in DOMAIN heap : heap[a].kind = "arena"
        /\ lastRun.clean => heap = <<>>

\* C37 witness: a VM closed after a NeRun that succeeded and made a string: the
\* buffer and the block of the string were released before the arenas.
C37_Witness ==
    /\ vm = "closed" /\ runs > 0 /\ lastRun.clean /\ lastRun.made = 1
    /\ closeLog = <<"buf", "obj", "scratch", "objectInfo", "vm">>
    /\ heap = <<>>

(***************************************************************************)
(* Claims about strings.                                                   *)
(***************************************************************************)
\* The decoded bytes of a raw span: a backslash and the byte after it stand for one
\* byte, every other byte for itself (a backslash that ends the span stands for
\* nothing).
RECURSIVE Decoded(_)
Decoded(raw) ==
    IF raw = <<>> THEN <<>>
    ELSE IF raw[1] # Backslash THEN <<raw[1]>> \o Decoded(Tail(raw))
    ELSE IF Len(raw) = 1 THEN <<>>
    ELSE <<EscapeValue(raw[2])>> \o Decoded(Tail(Tail(raw)))

\* The bytes with newline, carriage return, tab and backspace escaped again.
RECURSIVE Reescaped(_)
Reescaped(bytes) ==
    IF bytes = <<>> THEN <<>>
    ELSE (CASE bytes[1] = 10 -> TextEscN
            [] bytes[1] = 13 -> TextEscR
            [] bytes[1] = 9 -> TextEscT
            [] bytes[1] = 8 -> TextEscB
            [] OTHER -> <<bytes[1]>>) \o Reescaped(Tail(bytes))

\* C10: for a string object created from a raw span r, NeToString in Normal mode
\* returns exactly the decoded bytes of r, and in Code or REPL mode returns those
\* decoded bytes wrapped in double quotes with newline, carriage return, tab and
\* backspace escaped again and every other byte unchanged.
C10_ToStringReturnsDecoded ==
    prints > 0 /\ lastString.isString =>
        /\ lastString.valid
        /\ lastString.text =
              IF lastString.mode = "NSM_Normal" THEN Decoded(lastString.raw)
              ELSE TextQuote \o Reescaped(Decoded(lastString.raw)) \o TextQuote

\* The string objects that have a buffer.
StringObjects ==
    {a \in DOMAIN heap : /\ heap[a].kind = "obj" /\ heap[a].type = 0
                         /\ heap[a].payload.str # NULL}

\* C23 as stated: for every raw span the two passes of stringCreate agree, so the
\* string has the size of the decoded bytes and its buffer holds the decoded
\* bytes and then a NUL.
C23_TwoPassesAgree ==
    \A a \in StringObjects :
        /\ stringCreateLen(heap[a].raw, 1, 0) = Len(stringCreateFill(heap[a].raw, 1, <<>>))
        /\ heap[a].payload.size = Len(Decoded(heap[a].raw))
        /\ heap[heap[a].payload.str].bytes = Decoded(heap[a].raw) \o <<0>>


(***************************************************************************)
(* Claims about NeRun.  A run is defined when its token arena was          *)
(* allocated, and it has returned when it did not end in a crash or trap.  *)
(***************************************************************************)
Defined == runs > 0 /\ ~lastRun.undefined
Returned == Defined /\ lastRun.returned

Contains(text, part) ==
    \E i \in 0..(Len(text) - Len(part)) : SubSeq(text, i + 1, i + Len(part)) = part

\* The line ends of a text: \r\n, \r and \n each count once.
LineEnds(text) ==
    Cardinality({i \in 1..Len(text) :
                    \/ text[i] = ChReturn
                    \/ text[i] = ChNewline /\ (i = 1 \/ text[i - 1] # ChReturn)})

\* String literals that are not closed before the end of the source, alone and
\* after other text.
OpenStrings ==
    {Bytes(<<"\"", "a", "b">>), Bytes(<<"\"">>), Bytes(<<"\"", "a", "\n">>)}
UnterminatedSources == OpenStrings \cup {lead \o f : lead \in Leads, f \in OpenStrings}

C5_NilRunsToNil ==
    Returned /\ lastRun.source = TextNil =>
        lastRun.ret = 1 /\ lastRun.outResult = [type |-> "AT_Nil", v |-> 0]

\* C6: NeRun on the source yes returns success with Boolean true, and on the
\* source no returns success with Boolean false.
C6_YesAndNoRunToBooleans ==
    /\ Returned /\ lastRun.source = TextYes =>
          lastRun.ret = 1 /\ lastRun.outResult = [type |-> "AT_Boolean", v |-> 1]
    /\ Returned /\ lastRun.source = TextNo =>
          lastRun.ret = 1 /\ lastRun.outResult = [type |-> "AT_Boolean", v |-> 0]

C6_Witness ==
    /\ Returned /\ lastRun.source = TextNo
    /\ lastRun.ret = 1
    /\ lastRun.read = 1
    /\ lastRun.outResult.type = "AT_Boolean"

\* The lexemes of a source taken alone: whether the scan succeeds and, for each
\* lexeme, its token, its atom and the text of its span.
LexemesOf(source, tokens) ==
    [i \in 1..Len(tokens) |->
        [token |-> tokens[i].token, atom |-> tokens[i].atom,
         text |-> SubSeq(source, tokens[i].start + 1, tokens[i].end)]]

LexemesScanned(source, scan) ==
    [ok |-> scan.last.token = NeToken_EOF, tokens |-> LexemesOf(source, Tokens(scan.info))]

Lexemes(source) ==
    LexemesScanned(source,
                   lexLoop(source, NeLexStart(source),
                           [arena |-> arenaInit(4096, 4096), items |-> <<>>,
                            crashed |-> FALSE], FALSE, NULL))

\* The same of the lexemes the last run built.
BuiltLexemes == LexemesOf(lastRun.source, lastRun.built)

\* Whether the last run lexed as the lexemes alone say.
LexedAs(alone) == lastRun.lexed = alone.ok /\ BuiltLexemes = alone.tokens

\* C7 as stated: a block comment followed by rest lexes as rest alone does.
C7_BlockCommentLexesAsRest ==
    \A c \in BlockComments, rest \in Rests :
        Returned /\ lastRun.source = c \o rest => LexedAs(Lexemes(rest))

\* The value of a run of decimal digits, and of a sign and such a run.
RECURSIVE DecimalValueFrom(_, _, _)
DecimalValueFrom(d, i, acc) ==
    IF i > Len(d) THEN acc
    ELSE LET next == WAdd(WMul(acc, 10), WInt(d[i] - ChZero))
         IN  IF next.t >= 0 THEN DecimalValueFrom(d, i + 1, next) ELSE next
DecimalValue(d) == DecimalValueFrom(d, 1, WInt(0))
SignedValue(s, d) == IF s = <<ChMinus>> THEN WNeg(DecimalValue(d)) ELSE DecimalValue(d)

\* C8 as stated: a sign, if any, and decimal digits whose value fits in an i64
\* lex to exactly one token, a Number, whose span is the whole source and whose
\* value is the signed decimal value of the text.
C8_SignedDecimalIsOneNumber ==
    \A s \in Signs, d \in DigitRuns :
        Defined /\ lastRun.source = s \o d /\ InI64(SignedValue(s, d)) =>
            /\ lastRun.returned /\ lastRun.lexed
            /\ Len(lastRun.tokens) = 1
            /\ lastRun.tokens[1].token = NeToken_Number
            /\ lastRun.tokens[1].start = 0
            /\ lastRun.tokens[1].end = Len(lastRun.source)
            /\ lastRun.tokens[1].atom = [type |-> "AT_Integer", v |-> SignedValue(s, d)]

\* The byte one or two hexadecimal digits stand for.
HexByte(h) == IF Len(h) = 1 THEN HexValue(h[1]) ELSE 16 * HexValue(h[1]) + HexValue(h[2])

\* C9 as stated: backslash, #, x and one or two hexadecimal digits, followed by a
\* terminator or the end of the source, lex to exactly one Character token whose
\* value is the byte the digits stand for.
C9_HexCharacterIsOneCharacter ==
    \A h \in HexRuns, t \in Terminators :
        Returned /\ lastRun.source = <<Backslash, ChHash, ChLowerX>> \o h \o t =>
            /\ Len(lastRun.built) = 1
            /\ lastRun.built[1].token = NeToken_Character
            /\ lastRun.built[1].start = 0
            /\ lastRun.built[1].end = 3 + Len(h)
            /\ lastRun.built[1].atom.type = "AT_Character"
            /\ CharByte(lastRun.built[1].atom.v) = HexByte(h)


(***************************************************************************)
(* Claims about the registry of object types.                              *)
(***************************************************************************)
\* C19: the string type has the id 0, the ids NeObjectRegister has returned are
\* 1, 2, ... in the order of the calls, and the record found under each id is the
\* one registered under it, also after the arena of the records has grown.
C19_IdsAreStable ==
    vm = "open" =>
        /\ ObjectInfoAt(objectInfo, 0) = StringInfo
        /\ NumTypes(objectInfo) = Len(registered) + 1
        /\ \A i \in 1..Len(registered) :
              /\ registered[i].id = i
              /\ ObjectInfoAt(objectInfo, registered[i].id) = registered[i].info

\* C19 witness: seventeen types are registered of which the first and the last
\* differ, and the arena of the records has grown and moved.
C19_Witness ==
    /\ vm = "open" /\ Len(registered) = 17
    /\ registered[1].info # registered[17].info
    /\ objectInfo.arena.size > SizeofObjectInfo * 16
    /\ objectInfo.arena.start \notin RegistryAddresses

(***************************************************************************)
(* Claims about NeToString.                                                *)
(***************************************************************************)
\* The last NeToString call has returned.
Printed == prints > 0 /\ vm = "open"

\* C11 as stated: the pointer NeToString returned addresses the NUL-terminated
\* text inside the current buffer of the scratch arena, for every value, also
\* one whose rendering makes the arena grow and be moved by the memory callback.
C11_ReturnedPointerIsInScratch ==
    Printed => lastString.valid

\* The last NeToString call rendered a Character in the mode NSM_Code.
PrintedCharAsCode ==
    /\ Printed /\ lastString.valid
    /\ lastString.value.type = "AT_Character" /\ lastString.mode = "NSM_Code"

\* The text lexes to exactly one Character token, of the value c.
LexesToChar(text, c) ==
    /\ Lexemes(text).ok
    /\ Len(Lexemes(text).tokens) = 1
    /\ Lexemes(text).tokens[1].token = NeToken_Character
    /\ Lexemes(text).tokens[1].atom.type = "AT_Character"
    /\ CharByte(Lexemes(text).tokens[1].atom.v) = CharByte(c)

\* C17 as stated: the text NeToString gives for a Character in the mode NSM_Code
\* lexes to exactly one Character token whose value is that character.
C17_CodeTextOfCharacterIsReadBack ==
    PrintedCharAsCode => LexesToChar(lastString.text, lastString.value.v)

\* The text is the signed decimal numeral of the integer n: a minus sign when n is
\* negative, then digits with no needless leading zero whose value is that of n.
IsSignedDecimalOf(text, n) ==
    /\ Len(text) > 0
    /\ (text[1] = ChMinus) = WLess(n, WInt(0))
    /\ Len(text) > (IF text[1] = ChMinus THEN 1 ELSE 0)
    /\ \A i \in (IF text[1] = ChMinus THEN 2 ELSE 1)..Len(text) : IsDigit(text[i])
    /\ IF text[1] = ChMinus
       THEN text[2] # ChZero /\ WNeg(DecimalValue(Tail(text))) = n
       ELSE (text[1] = ChZero => Len(text) = 1) /\ DecimalValue(text) = n

\* C18: in every mode NeToString returns a pointer to the NUL-terminated text of
\* the value: the signed decimal numeral of an Integer, nil for Nil, yes for a
\* Boolean that is not 0 and no for the one that is.
C18_IntegerNilBooleanText ==
    Printed =>
        CASE lastString.value.type = "AT_Integer" ->
                lastString.valid /\ IsSignedDecimalOf(lastString.text, lastString.value.v)
          [] lastString.value.type = "AT_Nil" ->
                lastString.valid /\ lastString.text = Bytes(<<"n", "i", "l">>)
          [] lastString.value.type = "AT_Boolean" ->
                /\ lastString.valid
                /\ lastString.text = IF lastString.value.v = 0 THEN Bytes(<<"n", "o">>)
                                     ELSE Bytes(<<"y", "e", "s">>)
          [] OTHER -> TRUE

\* C18 witness: the Integer -42 has been rendered in the mode NSM_Code, as -42.
C18_Witness ==
    /\ Printed /\ lastString.valid
    /\ lastString.value.type = "AT_Integer" /\ lastString.mode = "NSM_Code"
    /\ lastString.value.v = WInt(-42)
    /\ lastString.text = Bytes(<<"-", "4", "2">>)

(***************************************************************************)
(* Claims about a NeRun that fails after the scan.                         *)
(***************************************************************************)
\* The tokens nextAtom reads.
Readable(t) ==
    t.token \in {NeToken_Number, NeToken_Character, NeToken_Yes, NeToken_No, NeToken_String}

\* The number of String tokens among the first k.
StringsIn(tokens, k) == Cardinality({i \in 1..k : tokens[i].token = NeToken_String})

\* The output slot holds the value of the token t.
HoldsValueOf(a, t) ==
    CASE t.token = NeToken_Yes -> a.type = "AT_Boolean" /\ a.v = 1
      [] t.token = NeToken_No -> a.type = "AT_Boolean" /\ a.v = 0
      [] t.token = NeToken_String ->
            /\ a.type = "AT_Object"
            /\ a.v \in DOMAIN heap
            /\ heap[a.v].kind = "obj" /\ heap[a.v].serial = serial
      [] OTHER -> a.type = t.atom.type /\ a = t.atom

\* The last NeRun scanned its source, then returned failure.
FailedAfterScan == Returned /\ lastRun.lexed /\ lastRun.ret = 0

\* C14: when NeRun returns failure after the scan, the token after the last one
\* it read and evaluated is one nextAtom does not read, no string of a later token
\* has been created, and the output slot holds the value of the last token read
\* and evaluated (Nil when there was none).
C14_FailureStopsAndKeepsOutput ==
    FailedAfterScan =>
        /\ lastRun.read < Len(lastRun.tokens)
        /\ \A i \in 1..lastRun.read : Readable(lastRun.tokens[i])
        /\ ~Readable(lastRun.tokens[lastRun.read + 1])
        /\ lastRun.made = StringsIn(lastRun.tokens, lastRun.read)
        /\ IF lastRun.read = 0 THEN lastRun.outResult.type = "AT_Nil"
           ELSE HoldsValueOf(lastRun.outResult, lastRun.tokens[lastRun.read])

\* C14 witness: yes nil "ab" has failed at nil, with yes in the output slot and
\* the string after nil not created.
C14_Witness ==
    /\ FailedAfterScan
    /\ lastRun.source = Bytes(<<"y", "e", "s", " ", "n", "i", "l", " ", "\"", "a", "b", "\"">>)
    /\ Len(lastRun.tokens) = 3 /\ lastRun.read = 1
    /\ lastRun.outResult.type = "AT_Boolean" /\ lastRun.outResult.v = 1
    /\ lastRun.made = 0

\* C32: when the scan succeeds and every token is one nextAtom reads, a NeRun that
\* returns has returned success after reading and evaluating every token; the
\* output slot holds the value of the last token, or Nil when there is no token,
\* and one object was created for each String token.
C32_RunGivesLastValue ==
    Returned /\ lastRun.lexed /\ (\A i \in 1..Len(lastRun.tokens) : Readable(lastRun.tokens[i])) =>
        /\ lastRun.ret = 1
        /\ lastRun.read = Len(lastRun.tokens)
        /\ lastRun.made = StringsIn(lastRun.tokens, Len(lastRun.tokens))
        /\ Cardinality({a \in DOMAIN heap : heap[a].kind = "obj"}) = lastRun.made
        /\ IF lastRun.tokens = <<>> THEN lastRun.outResult.type = "AT_Nil"
           ELSE HoldsValueOf(lastRun.outResult, lastRun.tokens[Len(lastRun.tokens)])

\* C32 witness: the run of 7, a comment, yes and "a" has given the string object.
C32_Witness ==
    /\ Returned /\ lastRun.ret = 1
    /\ lastRun.source = Bytes(<<"7", ";", " ", "c", "\n", "y", "e", "s", "\n", "\"", "a", "\"">>)
    /\ lastRun.read = 3 /\ lastRun.made = 1
    /\ lastRun.outResult.type = "AT_Object" /\ lastRun.outResult.v = gcObjs

\* C34 as stated: when the memory callback returns NULL to a call that creates
\* the string of a String token (the calls of a run after the first, which makes
\* the token arena), NeRun returns failure and the output slot holds no Object.
C34_StringFailureIsReported ==
    runs > 0 /\ lastRun.lexed /\ lastRun.failAt > 1 /\ lastRun.allocs >= lastRun.failAt =>
        /\ lastRun.returned /\ lastRun.ret = 0
        /\ lastRun.outResult.type # "AT_Object"

\* C25: when the scan of the source fails, NeRun returns failure with Nil in the
\* output slot, and it has read and evaluated no token and created no object (the
\* token arena is all it asked the memory callback for), also when tokens,
\* strings among them, stand before the error.
C25_LexErrorRunsNothing ==
    Returned /\ ~Lexemes(lastRun.source).ok =>
        /\ lastRun.ret = 0
        /\ lastRun.outResult.type = "AT_Nil"
        /\ lastRun.read = 0 /\ lastRun.made = 0
        /\ lastRun.allocs = 1

\* C25 witness: in "s" and, on the next line, "ab without its closing quote, the
\* scan has built the String token of "s" before it failed.
C25_Witness ==
    /\ Returned
    /\ lastRun.source = Bytes(<<"\"", "s", "\"", "\n", "\"", "a", "b">>)
    /\ ~Lexemes(lastRun.source).ok
    /\ Len(lastRun.built) = 1 /\ lastRun.built[1].token = NeToken_String
    /\ lastRun.ret = 0 /\ lastRun.made = 0

\* C24 as stated: when NeRun returns, with success, after a lex error or after a
\* failed read, the buffer of the token arena of the call has been released.
C24_TokenArenaIsReleased ==
    Returned => ~lastRun.kept

\* C27 as stated: no call of NeRun reads the string of a finished scratch session
\* after a later session has started on the scratch arena, the report of a lex
\* error included.  lastRun.clash tells that lexErrorV had NeOut start a session
\* at the place of errorMsg and then read errorMsg as its format.
C27_NoReadAfterLaterSession ==
    runs > 0 => ~lastRun.clash

(***************************************************************************)
(* Claims about names.                                                     *)
(***************************************************************************)
\* The reserved word a name is, or 0.
ReservedWord(name) ==
    CASE name = TextNil -> NeToken_Nil
      [] name = TextYes -> NeToken_Yes
      [] name = TextNo -> NeToken_No
      [] OTHER -> 0

\* C15: a name that is not nil, yes or no makes the scan fail: NeRun returns
\* failure with Nil in the output slot, no token built and the token arena
\* released; nil, yes and no are scanned as one token, the reserved word, that
\* spans the name.
C15_OnlyReservedWordsAreNames ==
    \A name \in NameSources :
        Returned /\ lastRun.source = name =>
            IF ReservedWord(name) = 0
            THEN /\ lastRun.ret = 0 /\ ~lastRun.lexed /\ ~lastRun.kept
                 /\ lastRun.built = <<>>
                 /\ lastRun.outResult.type = "AT_Nil"
            ELSE /\ lastRun.lexed
                 /\ Len(lastRun.tokens) = 1
                 /\ lastRun.tokens[1].token = ReservedWord(name)
                 /\ lastRun.tokens[1].start = 0
                 /\ lastRun.tokens[1].end = Len(name)

\* C15 witness: the name ab, which falls in the bucket of no and has its length,
\* has failed the scan.
C15_Witness ==
    /\ Returned /\ lastRun.source = Bytes(<<"a", "b">>)
    /\ hash(lastRun.source, HashBasisLow) % 16 = hash(TextNo, HashBasisLow) % 16
    /\ lastRun.ret = 0 /\ ~lastRun.lexed /\ ~lastRun.kept

\* C35 as stated: whatever bytes the source holds, the scan reads gNameChar at
\* the indices 0..127 only: lastRun.outside, the index of a read outside them,
\* stays empty.
C35_NameTableReadInside ==
    runs > 0 => lastRun.outside = <<>>

(***************************************************************************)
(* Claims about numbers.                                                   *)
(***************************************************************************)
\* The text is a sign, if any, and one or more decimal digits.
IsNumeral(text) ==
    /\ Len(text) > 0
    /\ IF text[1] = ChMinus \/ text[1] = ChPlus
       THEN Len(text) > 1 /\ \A i \in 2..Len(text) : IsDigit(text[i])
       ELSE \A i \in 1..Len(text) : IsDigit(text[i])

\* C22 as stated: every Number token the lexer builds spans a sign, if any, and
\* one or more decimal digits; a sign that no digit follows gives no Number.
C22_NumberTokenIsNumeral ==
    Defined =>
        \A i \in 1..Len(lastRun.built) :
            lastRun.built[i].token = NeToken_Number => IsNumeral(BuiltLexemes[i].text)

(***************************************************************************)
(* Claims about line comments.                                             *)
(***************************************************************************)
\* C21: a source with a line comment, from ; or from # and white space to the end
\* of the line, lexes as the same source with nothing between what precedes the
\* comment and the line end: the comment gives no token and the tokens of the
\* following lines are the same.
C21_LineCommentIsSkipped ==
    \A b \in BeforeComments, c \in LineComments :
        /\ \A e \in LineEndings, a \in AfterComments :
              Defined /\ lastRun.source = b \o c \o e \o a =>
                  LexedAs(Lexemes(b \o e \o a))
        /\ Defined /\ lastRun.source = b \o c => LexedAs(Lexemes(b))

\* C21 witness: in 7; c and, on the next lines, yes and "a", the comment has been
\* skipped and the three tokens are lexed.
C21_Witness ==
    /\ Returned
    /\ lastRun.source = Bytes(<<"7", ";", " ", "c", "\n",
                               "y", "e", "s", "\n", "\"", "a", "\"">>)
    /\ lastRun.lexed /\ Len(lastRun.tokens) = 3
    /\ lastRun.tokens[1].token = NeToken_Number
    /\ lastRun.tokens[2].token = NeToken_Yes
    /\ lastRun.tokens[3].token = NeToken_String

\* The line breaks among the first k bytes of the source: a carriage return, a
\* line feed that follows none, a pair of the two counting once.
LineBreaksBefore(source, k) ==
    Cardinality({i \in 1..k : \/ source[i] = ChReturn
                              \/ source[i] = ChNewline /\ (i = 1 \/ source[i - 1] # ChReturn)})

\* C31 as stated: the line recorded in each token is 1 plus the number of line breaks in
\* the source before the first byte of the token, a token that ends at a line
\* break (which was read and pushed back) included.
C31_TokenLineCountsLineBreaks ==
    Defined =>
        \A i \in 1..Len(lastRun.built) :
            lastRun.built[i].line = 1 + LineBreaksBefore(lastRun.source, lastRun.built[i].start)

\* The lexNext calls of a scan from L on, calls of them made before: each leaves
\* the cursor inside the source with ungetChar never applied twice in a row, and
\* gives EOF or Error or has moved the cursor forward; there are no more calls
\* than the source has bytes, and one.
RECURSIVE LexWalk(_, _, _)
LexWalked(source, L, calls, x) ==
    /\ calls <= Len(source)
    /\ 0 <= x.L.cursor /\ x.L.cursor <= x.L.end /\ x.L.lastCursor <= x.L.end
    /\ ~x.L.twice
    /\ \/ x.token = NeToken_EOF
       \/ x.token = NeToken_Error
       \/ x.L.cursor > L.cursor /\ LexWalk(source, x.L, calls + 1)

LexWalk(source, L, calls) == LexWalked(source, L, calls, lexNext(source, L))

\* C38: the scan of the source of every NeRun call ends: each lexNext call of it
\* consumes a byte at least or gives EOF or Error, the cursor stays inside the
\* source, and ungetChar is never applied twice without a nextChar between.
C38_LexTerminates ==
    runs > 0 => LexWalk(lastRun.source, NeLexStart(lastRun.source), 0)

\* C38 witness: the scan of 7, a comment, yes and "a", in which the character
\* after 7 and the line end after yes were pushed back, has built three tokens.
C38_Witness ==
    /\ Returned /\ lastRun.lexed
    /\ lastRun.source = Bytes(<<"7", ";", " ", "c", "\r", "\n", "y", "e", "s", "\n", "\"", "a", "\"">>)
    /\ Len(lastRun.tokens) = 3
    /\ lastRun.tokens[3].end = Len(lastRun.source) - 1

(***************************************************************************)
(* Claims about named characters.                                          *)
(***************************************************************************)
\* The character a name stands for.
CharNamed(name) ==
    CASE name = Bytes(<<"s", "p", "a", "c", "e">>) -> 32
      [] name = Bytes(<<"b", "a", "c", "k", "s", "p", "a", "c", "e">>) -> 8
      [] name = Bytes(<<"t", "a", "b">>) -> 9
      [] name = Bytes(<<"n", "e", "w", "l", "i", "n", "e">>) -> 10
      [] name = Bytes(<<"r", "e", "t", "u", "r", "n">>) -> 13
      [] name = Bytes(<<"b", "e", "l", "l">>) -> 7
      [] name = Bytes(<<"e", "s", "c">>) -> 27

\* C20: a backslash and one of the names space, backspace, tab, newline, return,
\* bell and esc, before a terminator or the end of the source, lex to exactly one
\* token, the Character the name stands for, that spans the backslash and the
\* name; a backslash and another run of two or more lowercase letters make the
\* scan fail with no token built.
C20_NamedCharacters ==
    \A t \in NameTerminators :
        /\ \A name \in CharNames :
              Returned /\ lastRun.source = <<Backslash>> \o name \o t =>
                  /\ Len(lastRun.built) = 1
                  /\ lastRun.built[1].token = NeToken_Character
                  /\ lastRun.built[1].start = 0
                  /\ lastRun.built[1].end = 1 + Len(name)
                  /\ lastRun.built[1].atom.type = "AT_Character"
                  /\ lastRun.built[1].atom.v = CharNamed(name)
        /\ \A name \in UnknownCharNames :
              Returned /\ lastRun.source = <<Backslash>> \o name \o t =>
                  lastRun.ret = 0 /\ ~lastRun.lexed /\ lastRun.built = <<>>

\* C20 witness: NeRun has read \backspace as the Character 8, while the scan of
\* \spade, which has the length of \space, fails.
C20_Witness ==
    /\ Returned /\ lastRun.source = Bytes(<<"\\", "b", "a", "c", "k", "s", "p", "a", "c", "e">>)
    /\ lastRun.lexed /\ lastRun.ret = 1
    /\ lastRun.outResult.type = "AT_Character" /\ lastRun.outResult.v = 8
    /\ ~Lexemes(Bytes(<<"\\", "s", "p", "a", "d", "e">>)).ok

\* C30 as stated: a backslash and # followed by a character that is neither a
\* terminator, nor #, nor x, nor a decimal digit is never a Character token: the
\* text of every Character token that begins with a backslash and # and goes on
\* goes on with x or a digit.
C30_HashThenOtherIsNoCharacter ==
    Defined =>
        \A i \in 1..Len(lastRun.built) :
            /\ lastRun.built[i].token = NeToken_Character
            /\ Len(BuiltLexemes[i].text) > 2
            /\ BuiltLexemes[i].text[1] = Backslash /\ BuiltLexemes[i].text[2] = ChHash
            => BuiltLexemes[i].text[3] = ChLowerX \/ IsDigit(BuiltLexemes[i].text[3])

(***************************************************************************)
(* Claims about string literals.                                           *)
(***************************************************************************)
\* The offset of the first double quote at or after offset i of the source that
\* no backslash escapes, the length of the source when there is none on the line.
RECURSIVE UnescapedQuote(_, _)
UnescapedQuote(source, i) ==
    IF i >= Len(source) THEN Len(source)
    ELSE IF source[i + 1] = ChNewline \/ source[i + 1] = ChReturn THEN Len(source)
    ELSE IF source[i + 1] = ChQuote THEN i
    ELSE IF source[i + 1] = Backslash THEN UnescapedQuote(source, i + 2)
    ELSE UnescapedQuote(source, i + 1)

\* The sources that are one closed string literal.
ClosedStrings ==
    {s \in StringSources \cup EscapedQuoteSources : UnescapedQuote(s, 1) = Len(s) - 1}

\* C16 as stated: the String token of a literal spans the bytes from the one after
\* the opening double quote to the one before the next double quote that no
\* backslash escapes.
C16_StringSpanEndsAtUnescapedQuote ==
    \A s \in ClosedStrings :
        Returned /\ lastRun.source = s =>
            /\ Len(lastRun.built) = 1
            /\ lastRun.built[1].token = NeToken_String
            /\ lastRun.built[1].start = 1
            /\ lastRun.built[1].end = UnescapedQuote(s, 1)

=============================================================================
